---- MODULE Spec2Model ----
(***************************************************************************)
(* State-machine model of the ingestion and caching engine of SeeMyStats   *)
(* (src/app/utils/health_parser.py, src/app/utils/dashboard_cache.py) and  *)
(* of the callers that drive it (src/app/components).                      *)
(*                                                                         *)
(* A path is a sequence of components (<<"u1", "export.xml">>); the        *)
(* filesystem is a set of functions from paths to what is stored there.    *)
(* Every handler is one action; what the environment may do during or      *)
(* between handlers (I/O errors, source changes) is an input or an action. *)
(***************************************************************************)
EXTENDS Integers, Sequences, FiniteSets, TLC

(***************************************************************************)
(* Bounds of the model.                                                    *)
(***************************************************************************)
MaxMtime == 2       \* modification times are 1..MaxMtime
MaxRecs == 1        \* a data file holds 0..MaxRecs entries
NChunks == 2        \* a pickled payload reaches its file in NChunks writes

(***************************************************************************)
(* Program constants.                                                      *)
(***************************************************************************)
CACHE_FILENAME == "health_cache.pkl"
CACHE_VERSION == 1
MEMORY_CACHE_LIMIT == 1
DASHBOARD_CACHE_FILENAME == "dashboard_cache.pkl"
DASHBOARD_CACHE_VERSION == 1

Mtimes == 1..MaxMtime

(***************************************************************************)
(* Paths (os.path).                                                        *)
(***************************************************************************)
U1 == <<"u1">>
U2 == <<"u2">>
DD == <<"d">>
F1 == <<"u1", "export.xml">>
F2 == <<"u2", "export.xml">>
DX == <<"d", "export.xml">>
DS == <<"d", "shuchu.xml">>         \* the second accepted export file name
DJ == <<"d", "data.json">>
DJ2 == <<"d", "more.json">>
DC == <<"d", "data.csv">>
DC2 == <<"d", "more.csv">>

\* The directories of the model, and its data files in the order in which a
\* recursive glob lists them.
DirPaths == {U1, U2, DD}
AllFiles == <<F1, F2, DX, DS, DJ, DJ2, DC, DC2>>
FileSet == {AllFiles[i] : i \in 1..Len(AllFiles)}

isdir(p) == p \in DirPaths
dirname(p) == SubSeq(p, 1, Len(p) - 1)
basename(p) == p[Len(p)]
join(d, name) == Append(d, name)
IsUnder(p, d) == Len(p) > Len(d) /\ SubSeq(p, 1, Len(d)) = d

\* f"{cache_path}.tmp": the suffix is kept as a trailing component.
TmpPath(cache_path) == Append(cache_path, ".tmp")

(***************************************************************************)
(* What a data file holds: n entries, then either the end of a well-formed *)
(* document (ok) or a syntax error (a truncated or malformed file).        *)
(* Entry i of a file carries the type TypeAt(i); NOKEY is an entry with no *)
(* 'type' key at all, "" one whose type is the empty string.               *)
(***************************************************************************)
NOKEY == "<no type>"
TypeAt(i) == CASE i % 4 = 1 -> "steps"
               [] i % 4 = 2 -> NOKEY
               [] i % 4 = 3 -> "hr"
               [] OTHER -> ""

Gone == [exists |-> FALSE, mtime |-> 0, n |-> 0, ok |-> FALSE]
FileStates == [exists : {TRUE}, mtime : Mtimes, n : 0..MaxRecs, ok : BOOLEAN]

\* st_size: the bytes of the document frame and of the entries.
SizeOf(f) == f.n + 1

\* A record is the attribute set of one entry; the file and the index stand
\* for the attributes that tell two records apart.
RecordOf(p, i) == [type |-> TypeAt(i), file |-> p, idx |-> i]

EmptyFn == [x \in {} |-> <<>>]

(***************************************************************************)
(* What a cache file (or its temporary file) holds.                        *)
(***************************************************************************)
Absent == [kind |-> "absent"]
Garbage == [kind |-> "garbage"]     \* pickle.load raises: truncated, corrupt
NotDict == [kind |-> "notdict"]     \* a pickle of something that is no dict
None == [type |-> "none"]
NoPayload == [kind |-> "none"]

VARIABLES
    files,                \* data file path -> FileStates or Gone
    dirmtime,             \* directory source -> st_mtime
    disk,                 \* cache file or temporary file path -> content
    MEMORY_CACHE,         \* cache path -> payload (the keys are its domain)
    MEMORY_CACHE_ORDER,   \* sequence of cache paths, oldest first
    threads,              \* thread -> where it stands in a call that runs step by step
    saved,                \* history: cache path -> the last save that reached the disk
    log                   \* history: what the last handler did and returned

(***************************************************************************)
(* _cache_path_for_source, both modules.                                   *)
(***************************************************************************)
\* A variant that keeps every cache in one place, whatever the source.
_cache_path_for_source_Flat(source_path) == join(<<>>, CACHE_FILENAME)

_cache_path_for_source(source_path) ==
    IF isdir(source_path) THEN join(source_path, CACHE_FILENAME)
    ELSE join(dirname(source_path), CACHE_FILENAME)

dashboard_cache_path_for_source(source_path) ==
    IF isdir(source_path) THEN join(source_path, DASHBOARD_CACHE_FILENAME)
    ELSE join(dirname(source_path), DASHBOARD_CACHE_FILENAME)

(***************************************************************************)
(* glob.glob(os.path.join(d, "**", name), recursive=True)                  *)
(***************************************************************************)
glob(fs, d, name) ==
    SelectSeq(AllFiles, LAMBDA p : IsUnder(p, d) /\ basename(p) = name /\ fs[p].exists)

\* The extension of a data file name, and glob.glob(os.path.join(d, "**",
\* "*." + ext), recursive=True).
Ext(p) == CASE basename(p) \in {"data.json", "more.json"} -> "json"
            [] basename(p) \in {"data.csv", "more.csv"} -> "csv"
            [] OTHER -> "xml"
globExt(fs, d, ext) ==
    SelectSeq(AllFiles, LAMBDA p : IsUnder(p, d) /\ Ext(p) = ext /\ fs[p].exists)

FileStamp(fs, p) ==
    IF p \in DOMAIN fs /\ fs[p].exists
    THEN [type |-> "file", path |-> p, mtime |-> fs[p].mtime, size |-> SizeOf(fs[p])]
    ELSE None       \* os.stat raises OSError

(***************************************************************************)
(* HealthDataParser._get_source_stamp                                      *)
(***************************************************************************)
_get_source_stamp(fs, dm, source_path) ==
    IF isdir(source_path)
    THEN LET xml_files == glob(fs, source_path, "export.xml")
                          \o glob(fs, source_path, "shuchu.xml")
         IN IF xml_files # <<>>
            THEN FileStamp(fs, xml_files[1])
            ELSE IF source_path \in DOMAIN dm
                 THEN [type |-> "dir", path |-> source_path, mtime |-> dm[source_path]]
                 ELSE None
    ELSE FileStamp(fs, source_path)

(***************************************************************************)
(* dashboard_cache._get_source_stamp                                       *)
(***************************************************************************)
dashboard_get_source_stamp(fs, dm, source_path) ==
    IF isdir(source_path)
    THEN LET xml_files == glob(fs, source_path, "export.xml")
         IN IF xml_files # <<>>
            THEN FileStamp(fs, xml_files[1])
            ELSE IF source_path \in DOMAIN dm
                 THEN [type |-> "dir", path |-> source_path, mtime |-> dm[source_path]]
                 ELSE None
    ELSE FileStamp(fs, source_path)

(***************************************************************************)
(* _store_memory_cache                                                     *)
(***************************************************************************)
Range(s) == {s[i] : i \in 1..Len(s)}
Put(f, k, v) == [x \in (DOMAIN f) \cup {k} |-> IF x = k THEN v ELSE f[x]]
Drop(f, k) == [x \in (DOMAIN f) \ {k} |-> f[x]]
InSeq(s, x) == \E i \in 1..Len(s) : s[i] = x
FirstIndex(s, x) == CHOOSE i \in 1..Len(s) : s[i] = x /\ \A j \in 1..(i - 1) : s[j] # x
\* list.remove(x): drops the first occurrence.
ListRemove(s, x) ==
    LET i == FirstIndex(s, x) IN SubSeq(s, 1, i - 1) \o SubSeq(s, i + 1, Len(s))

\* A variant that forgets MEMORY_CACHE.pop(old_path, None).
RECURSIVE EvictLoop_KeepsEntries(_, _, _)
EvictLoop_KeepsEntries(mem, order, cache_path) ==
    IF Len(order) > MEMORY_CACHE_LIMIT
    THEN EvictLoop_KeepsEntries(mem, Tail(order), cache_path)
    ELSE [mem |-> mem, order |-> order]

RECURSIVE EvictLoop(_, _, _)
EvictLoop(mem, order, cache_path) ==
    IF Len(order) > MEMORY_CACHE_LIMIT
    THEN LET old_path == Head(order)
         IN EvictLoop(IF old_path # cache_path THEN Drop(mem, old_path) ELSE mem,
                      Tail(order), cache_path)
    ELSE [mem |-> mem, order |-> order]

_store_memory_cache(mem, order, cache_path, payload) ==
    LET m1 == Put(mem, cache_path, payload)
        o1 == IF InSeq(order, cache_path) THEN ListRemove(order, cache_path) ELSE order
    IN EvictLoop(m1, Append(o1, cache_path), cache_path)

(***************************************************************************)
(* The state a call works on: the parser object (records, record_types),   *)
(* the module globals (mem, order) and the filesystem (disk, files, dm).   *)
(* alias holds the cache paths whose in-process payload refers to the very *)
(* list and dict objects the parser holds (payload["records"] is           *)
(* self.records): what the parser appends shows through in them.           *)
(* saved is history: per cache path the payload of the last save that      *)
(* reached the disk, with the source's stamp as it was when that save      *)
(* returned, and whether the file is still as that save wrote it.          *)
(***************************************************************************)
NewParser(mem, order, dk, fs, dm, sv) ==
    [records |-> <<>>, record_types |-> EmptyFn, alias |-> {},
     mem |-> mem, order |-> order, disk |-> dk, files |-> fs, dm |-> dm,
     saved |-> sv]

Truthy(type) == type # NOKEY /\ type # ""

\* A variant that tests "'type' in record" where the code tests the value.
AddIndex_AnyType(rt, r) ==
    IF r.type # NOKEY
    THEN IF r.type \in DOMAIN rt
         THEN [rt EXCEPT ![r.type] = Append(@, r)]
         ELSE Put(rt, r.type, <<r>>)
    ELSE rt

AddIndex(rt, r) ==
    IF Truthy(r.type)
    THEN IF r.type \in DOMAIN rt
         THEN [rt EXCEPT ![r.type] = Append(@, r)]
         ELSE Put(rt, r.type, <<r>>)
    ELSE rt

\* self.records.append(record) and the indexing that follows it.
Capture(st, r) ==
    LET recs == Append(st.records, r)
        rt == AddIndex(st.record_types, r)
    IN [st EXCEPT !.records = recs, !.record_types = rt,
                  !.mem = [cp \in DOMAIN st.mem |->
                             IF cp \in st.alias
                             THEN [st.mem[cp] EXCEPT !.records = recs, !.record_types = rt]
                             ELSE st.mem[cp]]]

RECURSIVE CaptureFile(_, _, _, _, _)
\* Entries i..n of file p, in order.  A JSON entry without a 'type' key is
\* skipped; an empty CSV cell is NaN, which is a type like any other.
CaptureFile(st, p, i, n, fmt) ==
    IF i > n THEN st
    ELSE LET t == TypeAt(i)
             r == IF fmt = "csv" /\ ~Truthy(t)
                  THEN [RecordOf(p, i) EXCEPT !.type = "nan"]
                  ELSE RecordOf(p, i)
         IN IF fmt = "json" /\ t = NOKEY
            THEN CaptureFile(st, p, i + 1, n, fmt)
            ELSE CaptureFile(Capture(st, r), p, i + 1, n, fmt)

exists(dk, p) == dk[p].kind # "absent"

(***************************************************************************)
(* HealthDataParser._load_cache                                            *)
(***************************************************************************)
LoadEvent(st, st2, cache_path, source_path, stamp, ret, tier, used) ==
    [op |-> "load", cache_path |-> cache_path, source |-> source_path,
     stamp |-> stamp, ret |-> ret, tier |-> tier, used |-> used,
     expect |-> st.saved[cache_path], diskBefore |-> st.disk[cache_path],
     records |-> st2.records, record_types |-> st2.record_types,
     memBefore |-> st.mem, memAfter |-> st2.mem,
     orderBefore |-> st.order, orderAfter |-> st2.order]

\* A variant that trusts the in-process entry without comparing stamps.
MemoryTierAccepts_NoStamp(memory_payload, source_stamp) ==
    /\ memory_payload # NoPayload
    /\ memory_payload.cache_version = CACHE_VERSION

MemoryTierAccepts(memory_payload, source_stamp) ==
    /\ memory_payload # NoPayload
    /\ memory_payload.cache_version = CACHE_VERSION
    /\ memory_payload.source_stamp = source_stamp

\* A variant that does not compare cache_version.
DiskTierAccepts_NoVersion(payload, source_stamp) ==
    /\ payload.kind # "garbage"
    /\ payload.kind = "payload"
    /\ payload.source_stamp = source_stamp

DiskTierAccepts(payload, source_stamp) ==
    /\ payload.kind # "garbage"                 \* pickle.load did not raise
    /\ payload.kind = "payload"                 \* isinstance(payload, dict)
    /\ payload.cache_version = CACHE_VERSION
    /\ payload.source_stamp = source_stamp

_load_cache(st, cache_path, source_path) ==
    LET Miss(source_stamp) ==
            [ret |-> FALSE, st |-> st,
             ev |-> LoadEvent(st, st, cache_path, source_path, source_stamp,
                              FALSE, "none", NoPayload)]
        \* self.records = payload.get("records", []); return len(self.records) > 0
        Hit(source_stamp, tier, payload, st2) ==
            [ret |-> Len(payload.records) > 0, st |-> st2,
             ev |-> LoadEvent(st, st2, cache_path, source_path, source_stamp,
                              Len(payload.records) > 0, tier, payload)]
        FromMemory(memory_payload) ==
            [st EXCEPT !.records = memory_payload.records,
                       !.record_types = memory_payload.record_types,
                       !.alias = {cache_path}]
        FromDisk(payload, sm) ==
            [st EXCEPT !.records = payload.records,
                       !.record_types = payload.record_types,
                       !.alias = {cache_path} \cap DOMAIN sm.mem,
                       !.mem = sm.mem, !.order = sm.order]
        Tiers(source_stamp, memory_payload, payload) ==
            IF ~exists(st.disk, cache_path) THEN Miss(source_stamp)
            ELSE IF source_stamp = None THEN Miss(source_stamp)
            ELSE IF MemoryTierAccepts(memory_payload, source_stamp)
            THEN Hit(source_stamp, "memory", memory_payload, FromMemory(memory_payload))
            ELSE IF ~DiskTierAccepts(payload, source_stamp) THEN Miss(source_stamp)
            ELSE Hit(source_stamp, "disk", payload,
                     FromDisk(payload,
                              _store_memory_cache(st.mem, st.order, cache_path, payload)))
    IN Tiers(_get_source_stamp(st.files, st.dm, source_path),
             IF cache_path \in DOMAIN st.mem THEN st.mem[cache_path] ELSE NoPayload,
             st.disk[cache_path])

(***************************************************************************)
(* Writing the temporary file and renaming it, shared by both save         *)
(* functions.  io.fail names the call that raises ("no": none), io.rm says *)
(* whether os.remove(tmp_path) works, io.now is the time of the writes.    *)
(***************************************************************************)
IoOutcomes == [fail : {"no", "open", "write", "replace"}, rm : BOOLEAN, now : Mtimes]
IoFine == [fail |-> "no", rm |-> TRUE, now |-> 1]

TmpAfterTry(dk, tmp_path, payload, io) ==
    CASE io.fail = "open" -> dk[tmp_path]       \* open() raised: nothing written
      [] io.fail = "write" -> Garbage           \* pickle.dump raised half way
      [] io.fail = "replace" -> payload         \* written, os.replace raised
      [] OTHER -> Absent                        \* renamed away

TmpAfterCleanup(tmp, io) ==
    IF io.fail # "no" /\ tmp.kind # "absent" /\ io.rm THEN Absent ELSE tmp

\* The directory's entries were changed (a create, a rename or an unlink).
TouchesDir(dk, tmp_path, io) ==
    CASE io.fail = "no" -> TRUE
      [] io.fail = "open" -> exists(dk, tmp_path) /\ io.rm
      [] OTHER -> ~exists(dk, tmp_path) \/ io.rm

DirAfterWrite(dm, d, touched, now) ==
    IF touched /\ d \in DOMAIN dm
    THEN [dm EXCEPT ![d] = IF now > @ THEN now ELSE @]
    ELSE dm

WriteAndRename(dk, cache_path, payload, io) ==
    LET tmp_path == TmpPath(cache_path)
        tmp == TmpAfterCleanup(TmpAfterTry(dk, tmp_path, payload, io), io)
    IN [dk EXCEPT ![tmp_path] = tmp,
                  ![cache_path] = IF io.fail = "no" THEN payload ELSE @]

(***************************************************************************)
(* HealthDataParser._save_cache                                            *)
(***************************************************************************)
SaveEvent(st, st2, cache_path, source_path, stamp, ok, ret, payload) ==
    [op |-> "save", cache_path |-> cache_path, source |-> source_path,
     stamp |-> stamp, ok |-> ok, ret |-> ret, raised |-> FALSE, payload |-> payload,
     diskBefore |-> st.disk[cache_path], diskAfter |-> st2.disk[cache_path],
     tmpAfter |-> st2.disk[TmpPath(cache_path)],
     memBefore |-> st.mem, memAfter |-> st2.mem,
     orderBefore |-> st.order, orderAfter |-> st2.order]

\* What the function hands back: it has no return statement.
_save_cache_result(ok) == "None"

_save_cache(st, cache_path, source_path, io) ==
    LET ok == io.fail = "no"
        Payload(source_stamp) ==
            [kind |-> "payload", cache_version |-> CACHE_VERSION,
             source_stamp |-> source_stamp,
             records |-> st.records, record_types |-> st.record_types]
        Written(payload, dm2, sm) ==
            [st EXCEPT !.disk = WriteAndRename(st.disk, cache_path, payload, io),
                       !.dm = dm2, !.mem = sm.mem, !.order = sm.order,
                       !.alias = IF ok THEN (@ \cup {cache_path}) \cap DOMAIN sm.mem ELSE @,
                       !.saved = IF ok
                                 THEN [@ EXCEPT ![cache_path] =
                                         [kind |-> "saved", payload |-> payload, intact |-> TRUE,
                                          after |-> _get_source_stamp(st.files, dm2, source_path)]]
                                 ELSE @]
        Done(source_stamp, payload, st2) ==
            [st |-> st2,
             ev |-> SaveEvent(st, st2, cache_path, source_path, source_stamp,
                              ok, _save_cache_result(ok), payload)]
        Try(source_stamp) ==
            IF source_stamp = None
            THEN [st |-> st,
                  ev |-> SaveEvent(st, st, cache_path, source_path, source_stamp,
                                   FALSE, _save_cache_result(FALSE), NoPayload)]
            ELSE Done(source_stamp, Payload(source_stamp),
                      Written(Payload(source_stamp),
                              DirAfterWrite(st.dm, dirname(cache_path),
                                            TouchesDir(st.disk, TmpPath(cache_path), io),
                                            io.now),
                              IF ok
                              THEN _store_memory_cache(st.mem, st.order, cache_path,
                                                       Payload(source_stamp))
                              ELSE [mem |-> st.mem, order |-> st.order]))
    IN Try(_get_source_stamp(st.files, st.dm, source_path))

(***************************************************************************)
(* HealthDataParser.parse_xml.  inp.io is the outcome of the I/O of the    *)
(* save; inp.vanish = "parse" removes the source once it has been read.    *)
(* The result carries the load and save events of the call.                *)
(***************************************************************************)
\* parsed: the formats that were read ("xml", "json", "csv").
Result(ret, st, loads, saves, parsed) ==
    [ret |-> ret, st |-> st, loads |-> loads, saves |-> saves, parsed |-> parsed]

\* A variant that leaves a snapshot file that is already there alone.
parse_xml_KeepsSnapshot(st, xml_path, inp) ==
    LET cache_path == _cache_path_for_source(xml_path)
        f == st.files[xml_path]
        Saved(ld, sv) ==
            Result(Len(sv.st.records) > 0, sv.st, <<ld.ev>>, <<sv.ev>>, {"xml"})
        Parsed(ld, read) ==
            IF ~f.ok THEN Result(FALSE, read, <<ld.ev>>, <<>>, {"xml"})
            ELSE IF exists(read.disk, cache_path)
            THEN Result(Len(read.records) > 0, read, <<ld.ev>>, <<>>, {"xml"})
            ELSE Saved(ld, _save_cache(read, cache_path, xml_path, inp.io))
        Loaded(ld) ==
            IF ld.ret THEN Result(TRUE, ld.st, <<ld.ev>>, <<>>, {})
            ELSE IF ~f.exists THEN Result(FALSE, ld.st, <<ld.ev>>, <<>>, {})
            ELSE Parsed(ld, CaptureFile(ld.st, xml_path, 1, f.n, "xml"))
    IN Loaded(_load_cache(st, cache_path, xml_path))

parse_xml(st, xml_path, inp) ==
    LET cache_path == _cache_path_for_source(xml_path)
        f == st.files[xml_path]
        Left(read) ==
            IF inp.vanish = "parse"
            THEN [read EXCEPT !.files = [@ EXCEPT ![xml_path] = Gone]]
            ELSE read
        Saved(ld, sv) ==
            Result(Len(sv.st.records) > 0, sv.st, <<ld.ev>>, <<sv.ev>>, {"xml"})
        Parsed(ld, read) ==
            IF ~f.ok THEN Result(FALSE, read, <<ld.ev>>, <<>>, {"xml"})     \* ParseError
            ELSE Saved(ld, _save_cache(Left(read), cache_path, xml_path, inp.io))
        Loaded(ld) ==
            IF ld.ret THEN Result(TRUE, ld.st, <<ld.ev>>, <<>>, {})
            ELSE IF ~f.exists THEN Result(FALSE, ld.st, <<ld.ev>>, <<>>, {})   \* open() raises
            ELSE Parsed(ld, CaptureFile(ld.st, xml_path, 1, f.n, "xml"))
    IN Loaded(_load_cache(st, cache_path, xml_path))

(***************************************************************************)
(* HealthDataParser.parse_json_files and parse_csv_files: a file that does *)
(* not load (json.load or pandas.read_csv raises) is skipped as a whole.   *)
(* Both return len(self.records) > 0, whatever put the records there.      *)
(***************************************************************************)
RECURSIVE ReadFiles(_, _, _)
ReadFiles(st, paths, fmt) ==
    IF paths = <<>> THEN st
    ELSE LET f == st.files[Head(paths)]
         IN ReadFiles(IF f.ok THEN CaptureFile(st, Head(paths), 1, f.n, fmt) ELSE st,
                      Tail(paths), fmt)

parse_json_files(st, directory_path) ==
    LET json_files == globExt(st.files, directory_path, "json")
        Done(st2) == Result(Len(st2.records) > 0, st2, <<>>, <<>>,
                            IF json_files # <<>> THEN {"json"} ELSE {})
    IN Done(ReadFiles(st, json_files, "json"))

parse_csv_files(st, directory_path) ==
    LET csv_files == globExt(st.files, directory_path, "csv")
        Done(st2) == Result(Len(st2.records) > 0, st2, <<>>, <<>>,
                            IF csv_files # <<>> THEN {"csv"} ELSE {})
    IN Done(ReadFiles(st, csv_files, "csv"))

(***************************************************************************)
(* HealthDataParser.parse_directory.  The loop over the export files stops *)
(* at the first one parse_xml reports as successful.  Every write of one   *)
(* call meets the same I/O conditions (inp.io).                            *)
(***************************************************************************)
Merge(r, x) ==
    Result(x.ret, x.st, r.loads \o x.loads, r.saves \o x.saves, r.parsed \cup x.parsed)

RECURSIVE ParseExports(_, _, _)
ParseExports(r, export_files, inp) ==
    IF export_files = <<>> \/ r.ret THEN r
    ELSE ParseExports(Merge(r, parse_xml(r.st, Head(export_files), inp)),
                      Tail(export_files), inp)

parse_directory(st, directory_path, inp) ==
    LET xml_files == globExt(st.files, directory_path, "xml")
        export_files == SelectSeq(xml_files,
                                  LAMBDA p : basename(p) \in {"export.xml", "shuchu.xml"})
        cache_source == IF export_files # <<>> THEN export_files[1] ELSE directory_path
        cache_path == _cache_path_for_source(cache_source)
        Json(x) == IF ~x.ret THEN parse_json_files(x.st, directory_path)
                   ELSE Result(TRUE, x.st, <<>>, <<>>, {})
        Csv(j) == IF ~j.ret THEN parse_csv_files(j.st, directory_path)
                  ELSE Result(TRUE, j.st, <<>>, <<>>, {})
        Saved(x, parsed, sv) == Result(TRUE, sv.st, x.loads, Append(x.saves, sv.ev), parsed)
        \* x.ret is parsed_xml, c.ret is success
        Finish(x, c, parsed) ==
            IF c.ret /\ ~x.ret
            THEN Saved(x, parsed, _save_cache(c.st, cache_path, directory_path, inp.io))
            ELSE Result(c.ret, c.st, x.loads, x.saves, parsed)
        AfterJson(x, j, c) == Finish(x, c, x.parsed \cup j.parsed \cup c.parsed)
        AfterXml(x, j) == AfterJson(x, j, Csv(j))
        Fallbacks(x) == AfterXml(x, Json(x))
        Loaded(ld) ==
            IF ld.ret THEN Result(TRUE, ld.st, <<ld.ev>>, <<>>, {})
            ELSE Fallbacks(ParseExports(Result(FALSE, ld.st, <<ld.ev>>, <<>>, {}),
                                        export_files, inp))
    IN Loaded(_load_cache(st, cache_path, cache_source))

(***************************************************************************)
(* dashboard_cache.load_dashboard_cache                                    *)
(***************************************************************************)
DashboardAccepts(payload, source_stamp) ==
    /\ payload.kind # "garbage"
    /\ payload.kind = "payload"
    /\ payload.cache_version = DASHBOARD_CACHE_VERSION
    /\ payload.source_stamp = source_stamp

load_dashboard_cache(st, source_path) ==
    LET cache_path == dashboard_cache_path_for_source(source_path)
        Loaded(source_stamp, payload, hit) ==
            [ret |-> IF hit THEN payload ELSE NoPayload,
             ev |-> LoadEvent(st, st, cache_path, source_path, source_stamp, hit,
                              IF hit THEN "disk" ELSE "none",
                              IF hit THEN payload ELSE NoPayload)]
        Check(source_stamp, payload) ==
            Loaded(source_stamp, payload,
                   /\ exists(st.disk, cache_path)
                   /\ source_stamp # None
                   /\ DashboardAccepts(payload, source_stamp))
    IN Check(dashboard_get_source_stamp(st.files, st.dm, source_path), st.disk[cache_path])

(***************************************************************************)
(* dashboard.build_dashboard_payload: the aggregates are a function of the *)
(* Record Store; here the record count and the type keys stand for them.   *)
(***************************************************************************)
build_dashboard_payload(st) ==
    [stats |-> Len(st.records), data_types |-> DOMAIN st.record_types]

(***************************************************************************)
(* dashboard_cache.save_dashboard_cache                                    *)
(***************************************************************************)
save_dashboard_cache(st, source_path, body, io) ==
    LET cache_path == dashboard_cache_path_for_source(source_path)
        ok == io.fail = "no"
        Payload(source_stamp) ==
            [kind |-> "payload", cache_version |-> DASHBOARD_CACHE_VERSION,
             source_stamp |-> source_stamp,
             stats |-> body.stats, data_types |-> body.data_types]
        Written(payload, dm2) ==
            [st EXCEPT !.disk = WriteAndRename(st.disk, cache_path, payload, io),
                       !.dm = dm2,
                       !.saved = IF ok
                                 THEN [@ EXCEPT ![cache_path] =
                                         [kind |-> "saved", payload |-> payload, intact |-> TRUE,
                                          after |-> dashboard_get_source_stamp(st.files, dm2,
                                                                               source_path)]]
                                 ELSE @]
        Done(source_stamp, payload, st2) ==
            [ret |-> ok, st |-> st2,
             ev |-> SaveEvent(st, st2, cache_path, source_path, source_stamp,
                              ok, IF ok THEN "True" ELSE "False", payload)]
        Try(source_stamp) ==
            IF source_stamp = None
            THEN [ret |-> FALSE, st |-> st,
                  ev |-> SaveEvent(st, st, cache_path, source_path, source_stamp,
                                   FALSE, "False", NoPayload)]
            ELSE Done(source_stamp, Payload(source_stamp),
                      Written(Payload(source_stamp),
                              DirAfterWrite(st.dm, dirname(cache_path),
                                            TouchesDir(st.disk, TmpPath(cache_path), io),
                                            io.now)))
    IN Try(dashboard_get_source_stamp(st.files, st.dm, source_path))

vars == <<files, dirmtime, disk, MEMORY_CACHE, MEMORY_CACHE_ORDER, threads, saved, log>>

(***************************************************************************)
(* The cache files of the model and the initial state: nothing cached.     *)
(***************************************************************************)
CachePaths == {join(d, CACHE_FILENAME) : d \in DirPaths}
DashboardPaths == {join(d, DASHBOARD_CACHE_FILENAME) : d \in DirPaths}
DiskPaths == CachePaths \cup DashboardPaths
             \cup {TmpPath(cp) : cp \in CachePaths \cup DashboardPaths}
TrackedDirs == {DD}     \* the directories that are used as a source

Idle == [op |-> "idle", source |-> <<>>, ret |-> FALSE, loads |-> <<>>, saves |-> <<>>,
         parsed |-> {}, records |-> <<>>, record_types |-> EmptyFn]

\* No call is under way step by step: every handler runs as one action.
NoThreads == EmptyFn

NothingCached ==
    /\ disk = [p \in DiskPaths |-> Absent]
    /\ MEMORY_CACHE = EmptyFn
    /\ MEMORY_CACHE_ORDER = <<>>
    /\ threads = NoThreads
    /\ saved = [p \in CachePaths \cup DashboardPaths |-> NoPayload]
    /\ log = Idle

\* A variant in which the requests share one parser object: the records of
\* the ingestion before are still in it.
Parser_Shared ==
    [NewParser(MEMORY_CACHE, MEMORY_CACHE_ORDER, disk, files, dirmtime, saved)
        EXCEPT !.records = IF threads = <<>> THEN <<>> ELSE threads[Len(threads)].records,
               !.record_types = IF threads = <<>> THEN EmptyFn
                                ELSE threads[Len(threads)].record_types]

\* parser = HealthDataParser(): empty, beside the caches as they are.
Parser == NewParser(MEMORY_CACHE, MEMORY_CACHE_ORDER, disk, files, dirmtime, saved)

Commit(st) ==
    /\ files' = st.files
    /\ dirmtime' = st.dm
    /\ disk' = st.disk
    /\ MEMORY_CACHE' = st.mem
    /\ MEMORY_CACHE_ORDER' = st.order
    /\ saved' = st.saved

\* The I/O outcomes that differ in their effect for a cache file in directory d.
IoFor(d) == {io \in IoOutcomes : /\ (io.fail = "no" => io.rm)
                                 /\ (d \notin TrackedDirs => io.now = 1)}

(***************************************************************************)
(* dashboard.initialize_parser with session['data_file_path'] = p, as the  *)
(* analysis and chart handlers call it.                                    *)
(***************************************************************************)
initialize_parser(st, p, inp) ==
    IF isdir(p) THEN parse_directory(st, p, inp)    \* session['data_dir_path']
    ELSE IF st.files[p].exists THEN parse_xml(st, p, inp)
    ELSE Result(FALSE, st, <<>>, <<>>, {})          \* returns None

LogOf(op, p, r) ==
    [op |-> op, source |-> p, ret |-> r.ret, loads |-> r.loads, saves |-> r.saves,
     parsed |-> r.parsed, records |-> r.st.records, record_types |-> r.st.record_types]

\* The handler returns: its effects are in place and its history is kept.
Return(op, p, r) == Commit(r.st) /\ log' = LogOf(op, p, r) /\ UNCHANGED threads

InitializeParser(p, ios, vanishes) ==
    /\ log = Idle
    /\ \E io \in ios, vanish \in vanishes :
        Return("initialize_parser", p,
               initialize_parser(Parser, p, [io |-> io, vanish |-> vanish]))

(***************************************************************************)
(* dashboard.index with session['data_file_path'] = p.                     *)
(***************************************************************************)
index(st, p, inp) ==
    LET Built(r) ==
            IF inp.vanish = "build"
            THEN [r.st EXCEPT !.files = [@ EXCEPT ![p] = Gone]]
            ELSE r.st
        Saved(ld, r, sv) ==
            Result(TRUE, sv.st, <<ld.ev>> \o r.loads, Append(r.saves, sv.ev), r.parsed)
        Parsed(ld, r) ==
            IF ~r.ret THEN Result(FALSE, r.st, <<ld.ev>> \o r.loads, r.saves, r.parsed)
            ELSE Saved(ld, r, save_dashboard_cache(Built(r), p, build_dashboard_payload(r.st),
                                                   inp.io2))
        Loaded(ld) ==
            IF ld.ret # NoPayload THEN Result(TRUE, st, <<ld.ev>>, <<>>, {})
            ELSE Parsed(ld, initialize_parser(st, p, inp))
    IN Loaded(load_dashboard_cache(st, p))

DashboardIndex(p, ios, vanishes) ==
    /\ log = Idle
    /\ \E io \in ios, io2 \in ios, vanish \in vanishes :
        Return("index", p, index(Parser, p, [io |-> io, io2 |-> io2, vanish |-> vanish]))

\* The handler's response is delivered: its history is dropped.
Respond ==
    /\ log # Idle
    /\ log' = Idle
    /\ UNCHANGED <<threads, files, dirmtime, disk, MEMORY_CACHE, MEMORY_CACHE_ORDER, saved>>

(***************************************************************************)
(* The environment: the user replaces or touches an export file, a cache   *)
(* file is damaged, a cache file stems from the previous engine revision,  *)
(* the server process is restarted.                                        *)
(***************************************************************************)
Spoiled(sv) == IF sv = NoPayload THEN sv ELSE [sv EXCEPT !.intact = FALSE]

ModifySource(p, states) ==
    /\ log = Idle
    /\ files[p].exists
    /\ \E f \in states : f # files[p] /\ files' = [files EXCEPT ![p] = f]
    /\ UNCHANGED <<threads, dirmtime, disk, MEMORY_CACHE, MEMORY_CACHE_ORDER, saved, log>>

CorruptSnapshot(cp) ==
    /\ log = Idle
    /\ exists(disk, cp)
    /\ \E junk \in {Garbage, NotDict} : junk # disk[cp] /\ disk' = [disk EXCEPT ![cp] = junk]
    /\ saved' = [saved EXCEPT ![cp] = Spoiled(@)]
    /\ UNCHANGED <<threads, files, dirmtime, MEMORY_CACHE, MEMORY_CACHE_ORDER, log>>

VersionDrift(cp) ==
    /\ log = Idle
    /\ disk[cp].kind = "payload"
    /\ disk[cp].cache_version = CACHE_VERSION
    /\ disk' = [disk EXCEPT ![cp] = [@ EXCEPT !.cache_version = CACHE_VERSION - 1]]
    /\ saved' = [saved EXCEPT ![cp] = Spoiled(@)]
    /\ UNCHANGED <<threads, files, dirmtime, MEMORY_CACHE, MEMORY_CACHE_ORDER, log>>

Restart ==
    /\ log = Idle
    /\ MEMORY_CACHE # EmptyFn
    /\ MEMORY_CACHE' = EmptyFn
    /\ MEMORY_CACHE_ORDER' = <<>>
    /\ UNCHANGED <<threads, files, dirmtime, disk, saved, log>>

(***************************************************************************)
(* Spec: the record cache and the dashboard cache of an uploaded export    *)
(* file F1 that its owner may replace, beside a second upload F2, in its   *)
(* own directory, that is only read.  A save may fail at the rename.       *)
(***************************************************************************)
Fresh(n) == [exists |-> TRUE, mtime |-> 1, n |-> n, ok |-> TRUE]
RenameFails == [fail |-> "replace", rm |-> TRUE, now |-> 1]
SpecIo == {IoFine, RenameFails}

Init ==
    /\ \E n \in 0..MaxRecs :
         files = [p \in FileSet |-> IF p = F1 THEN Fresh(n)
                                    ELSE IF p = F2 THEN Fresh(MaxRecs) ELSE Gone]
    /\ dirmtime = [d \in TrackedDirs |-> 1]
    /\ NothingCached

Next ==
    \/ \E p \in {F1, F2} : InitializeParser(p, SpecIo, {"no"})
    \/ DashboardIndex(F1, SpecIo, {"no"})
    \/ ModifySource(F1, FileStates)
    \/ CorruptSnapshot(_cache_path_for_source(F1))
    \/ CorruptSnapshot(dashboard_cache_path_for_source(F1))
    \/ VersionDrift(_cache_path_for_source(F1))
    \/ VersionDrift(dashboard_cache_path_for_source(F1))
    \/ Restart
    \/ Respond

Spec == Init /\ [][Next]_vars

(***************************************************************************)
(* SpecDir: a data directory (session['data_dir_path']) that holds any     *)
(* combination of an export.xml, a data.json and a data.csv, each          *)
(* well-formed or broken off after some entries.  The cache files are      *)
(* written into that directory at some time io.now; every write succeeds.  *)
(***************************************************************************)
DirIo == {io \in IoOutcomes : io.fail = "no" /\ io.rm}
Unmodified == {f \in FileStates : f.mtime = 1}

InitDir ==
    /\ \E x \in Unmodified \cup {Gone}, j \in Unmodified \cup {Gone},
          c \in {Fresh(MaxRecs), Gone} :
         files = [p \in FileSet |-> CASE p = DX -> x
                                      [] p = DJ -> j
                                      [] p = DC -> c
                                      [] OTHER -> Gone]
    /\ dirmtime = [d \in TrackedDirs |-> 1]
    /\ NothingCached

NextDir ==
    \/ InitializeParser(DD, DirIo, {"no"})
    \/ DashboardIndex(DD, DirIo, {"no"})
    \/ Restart
    \/ Respond

SpecDir == InitDir /\ [][NextDir]_vars

(***************************************************************************)
(* SpecMulti: a data directory with up to two files of each format, each   *)
(* absent, well-formed or broken off, parsed once.                         *)
(***************************************************************************)
Cut(n) == [exists |-> TRUE, mtime |-> 1, n |-> n, ok |-> FALSE]
Samples == {Gone, Fresh(MaxRecs), Cut(MaxRecs), Cut(0)}

InitMulti ==
    /\ \E contents \in [{DX, DS, DJ, DJ2, DC, DC2} -> Samples] :
         files = [p \in FileSet |-> IF p \in DOMAIN contents THEN contents[p] ELSE Gone]
    /\ dirmtime = [d \in TrackedDirs |-> 1]
    /\ NothingCached

NextMulti ==
    \/ InitializeParser(DD, {IoFine}, {"no"})
    \/ Respond

SpecMulti == InitMulti /\ [][NextMulti]_vars

(***************************************************************************)
(* SpecStore: one parser object at a time, kept in threads, on which the   *)
(* ingestion operations and cache loads are called one after the other;    *)
(* a following request creates a new parser beside the same caches.  The   *)
(* files hold StoreLen entries (typed, without a type, with an empty type) *)
(* or break off after some of them.                                        *)
(***************************************************************************)
StoreLen == 4
MaxCalls == 3

\* HealthDataParser.__init__
Created == [pc |-> "__init__", records |-> <<>>, record_types |-> EmptyFn,
            alias |-> {}, calls |-> 0]

Held == [Parser EXCEPT !.records = threads.records,
                       !.record_types = threads.record_types,
                       !.alias = threads.alias]

Plain == [io |-> IoFine, vanish |-> "no"]

Keep(name, r) ==
    /\ threads.calls < MaxCalls
    /\ Commit(r.st)
    /\ threads' = [pc |-> name, records |-> r.st.records,
                   record_types |-> r.st.record_types, alias |-> r.st.alias,
                   calls |-> threads.calls + 1]
    /\ UNCHANGED log

CacheLoad(st, source_path) ==
    LET Done(ld) == Result(ld.ret, ld.st, <<ld.ev>>, <<>>, {})
    IN Done(_load_cache(st, _cache_path_for_source(source_path), source_path))

NextRequest ==
    /\ threads.pc # "__init__"
    /\ threads' = [Created EXCEPT !.calls = threads.calls]
    /\ UNCHANGED <<files, dirmtime, disk, MEMORY_CACHE, MEMORY_CACHE_ORDER, saved, log>>

InitStore ==
    /\ \E f1 \in {Fresh(StoreLen), Cut(StoreLen - 1)},
          dx \in {Gone, Fresh(StoreLen), Cut(1)},
          dj \in {Gone, Fresh(StoreLen)},
          dc \in {Gone, Fresh(StoreLen)} :
         files = [p \in FileSet |-> CASE p = F1 -> f1 [] p = DX -> dx
                                      [] p = DJ -> dj [] p = DC -> dc
                                      [] OTHER -> Gone]
    /\ dirmtime = [d \in TrackedDirs |-> 1]
    /\ disk = [p \in DiskPaths |-> Absent]
    /\ MEMORY_CACHE = EmptyFn
    /\ MEMORY_CACHE_ORDER = <<>>
    /\ threads = Created
    /\ saved = [p \in CachePaths \cup DashboardPaths |-> NoPayload]
    /\ log = Idle

NextStore ==
    \/ Keep("parse_xml", parse_xml(Held, F1, Plain))
    \/ Keep("parse_directory", parse_directory(Held, DD, Plain))
    \/ Keep("parse_json_files", parse_json_files(Held, DD))
    \/ Keep("parse_csv_files", parse_csv_files(Held, DD))
    \/ Keep("_load_cache", CacheLoad(Held, F1))
    \/ Keep("_load_cache", CacheLoad(Held, DD))
    \/ NextRequest

SpecStore == InitStore /\ [][NextStore]_vars

(***************************************************************************)
(* SpecTwice: the upload F1, never modified, is ingested by two parsers,   *)
(* each created for its request.  The cache is out of the way when the     *)
(* save failed, or when the server was restarted and the snapshot is       *)
(* damaged or from another engine revision.  threads keeps the Record      *)
(* Store each ingestion produced.                                          *)
(***************************************************************************)
Ingestions == 2

StoreOf(r) == [records |-> r.st.records, record_types |-> r.st.record_types,
               ret |-> r.ret, parsed |-> r.parsed, tier |-> r.loads[1].tier]

Ingest ==
    /\ Len(threads) < Ingestions
    /\ \E io \in IoFor(U1) :
         LET Done(r) == /\ Commit(r.st)
                        /\ threads' = Append(threads, StoreOf(r))
         IN Done(parse_xml(Parser, F1, [io |-> io, vanish |-> "no"]))
    /\ UNCHANGED log

InitTwice ==
    /\ \E f1 \in {Fresh(n) : n \in 0..StoreLen} \cup {Cut(n) : n \in 0..StoreLen} :
         files = [p \in FileSet |-> IF p = F1 THEN f1 ELSE Gone]
    /\ dirmtime = [d \in TrackedDirs |-> 1]
    /\ disk = [p \in DiskPaths |-> Absent]
    /\ MEMORY_CACHE = EmptyFn
    /\ MEMORY_CACHE_ORDER = <<>>
    /\ threads = <<>>
    /\ saved = [p \in CachePaths \cup DashboardPaths |-> NoPayload]
    /\ log = Idle

NextTwice ==
    \/ Ingest
    \/ CorruptSnapshot(_cache_path_for_source(F1))
    \/ VersionDrift(_cache_path_for_source(F1))
    \/ Restart

SpecTwice == InitTwice /\ [][NextTwice]_vars

(***************************************************************************)
(* SpecProgress: upload._parse_in_background around one parse_xml call,    *)
(* the parse loop step by step.  threads is the frame of the call: the     *)
(* read position of xml_file, the loop's locals, the percentages the       *)
(* progress callback received (calls) and UPLOAD_STATUS's progress.        *)
(* total_size is what os.path.getsize returned, 0 for an empty file or     *)
(* for None; the file may be longer or shorter by the time it is read.     *)
(* A report is due every ReportEvery records (5000 in the code).           *)
(***************************************************************************)
MaxPos == 3
ReportEvery == 2
MaxCount == 2 * ReportEvery + 1

Min(a, b) == IF a < b THEN a ELSE b
Max(a, b) == IF a > b THEN a ELSE b

\* A variant without the clamp to 5..95.
Progress_Unclamped(current_pos, total_size) ==
    (current_pos * 90) \div total_size + 5

\* A variant that scales into 0..100 and leaves no headroom.
Progress_FullRange(current_pos, total_size) ==
    Max(0, Min(100, (current_pos * 100) \div total_size))

\* progress = int((current_pos / total_size) * 90) + 5
\* progress = max(5, min(95, progress))
Progress(current_pos, total_size) ==
    Max(5, Min(95, (current_pos * 90) \div total_size + 5))

Frame(pc) == [pc |-> pc, callback |-> FALSE, total_size |-> 0, pos |-> 0,
              record_count |-> 0, last_progress |-> -1, calls |-> <<>>,
              status |-> 5, ret |-> FALSE]

OnlyThreads == UNCHANGED <<files, dirmtime, disk, MEMORY_CACHE, MEMORY_CACHE_ORDER,
                           saved, log>>

\* progress_callback(progress, message) -> _set_upload_status(..., progress)
Called(fr, progress) ==
    [fr EXCEPT !.calls = Append(@, progress), !.status = progress]

\* parse_xml is entered, by the upload worker with its callback or by a
\* request handler without one; _load_cache hits or misses.
CallParseXml ==
    /\ threads.pc = "queued"
    /\ \E callback \in BOOLEAN, hit \in BOOLEAN, total_size \in 0..MaxPos :
         LET fr == [threads EXCEPT !.callback = callback]
         IN threads' =
              IF hit
              THEN [(IF callback THEN Called(fr, 95) ELSE fr)
                       EXCEPT !.pc = "returned", !.ret = TRUE]
              ELSE [fr EXCEPT !.pc = "loop", !.total_size = total_size]
    /\ OnlyThreads

\* ET.iterparse reads the next block of the file.
ReadBlock ==
    /\ threads.pc = "loop"
    /\ \E pos \in (threads.pos + 1)..MaxPos : threads' = [threads EXCEPT !.pos = pos]
    /\ OnlyThreads

\* One Record element ends: lines 216-235.
EndOfRecord ==
    /\ threads.pc = "loop"
    /\ threads.record_count < MaxCount
    /\ LET fr == [threads EXCEPT !.record_count = @ + 1]
           progress == Progress(fr.pos, fr.total_size)
       IN threads' =
            IF fr.callback /\ fr.total_size # 0 /\ fr.record_count % ReportEvery = 0
               /\ progress # fr.last_progress
            THEN [Called(fr, progress) EXCEPT !.last_progress = progress]
            ELSE fr
    /\ OnlyThreads

\* The document ends (return len(self.records) > 0) or a ParseError is
\* caught (return False).
ReturnFromParse ==
    /\ threads.pc = "loop"
    /\ \E error \in BOOLEAN :
         threads' = [threads EXCEPT !.pc = "returned",
                                    !.ret = ~error /\ threads.record_count > 0]
    /\ OnlyThreads

\* _parse_in_background after the call: 97 and 100, or 100 at once.
AfterParse ==
    /\ \/ /\ threads.pc = "returned" /\ threads.ret
          /\ threads' = [threads EXCEPT !.pc = "building", !.status = 97]
       \/ /\ threads.pc = "returned" /\ ~threads.ret
          /\ threads' = [threads EXCEPT !.pc = "done", !.status = 100]
       \/ /\ threads.pc = "building"
          /\ threads' = [threads EXCEPT !.pc = "done", !.status = 100]
    /\ OnlyThreads

InitProgress ==
    /\ files = [p \in FileSet |-> IF p = F1 THEN Fresh(MaxRecs) ELSE Gone]
    /\ dirmtime = [d \in TrackedDirs |-> 1]
    /\ disk = [p \in DiskPaths |-> Absent]
    /\ MEMORY_CACHE = EmptyFn
    /\ MEMORY_CACHE_ORDER = <<>>
    /\ threads = Frame("queued")
    /\ saved = [p \in CachePaths \cup DashboardPaths |-> NoPayload]
    /\ log = Idle

NextProgress ==
    \/ CallParseXml
    \/ ReadBlock
    \/ EndOfRecord
    \/ ReturnFromParse
    \/ AfterParse

SpecProgress == InitProgress /\ [][NextProgress]_vars

(***************************************************************************)
(* SpecRelease: the callers that create a parser, each from its entry to   *)
(* its exit: upload._parse_in_background, dashboard.index and get_chart,   *)
(* analysis.index, get_data, correlation_analysis and health_summary.      *)
(* threads is the frame of the running handler: whether it has created a   *)
(* parser, the parser's temp_dirs and whether clean_up was invoked on it.  *)
(* The ingestion is the model's; computing the aggregates may raise.       *)
(***************************************************************************)
Handlers == {"_parse_in_background", "dashboard.index", "dashboard.get_chart",
             "analysis.index", "analysis.get_data",
             "analysis.correlation_analysis", "analysis.health_summary"}

Outside == [handler |-> "none", pc |-> "exit", created |-> FALSE, cleaned |-> FALSE,
            temp_dirs |-> <<>>, records |-> <<>>, record_types |-> EmptyFn]

\* HealthDataParser.clean_up: the registered directories are removed (none
\* is registered: no handler calls extract_from_zip) and the list is reset.
clean_up(fr) == [fr EXCEPT !.cleaned = TRUE, !.temp_dirs = <<>>]

Exit(fr) == [fr EXCEPT !.pc = "exit"]

\* A handler is entered and creates its parser.  dashboard.index serves a
\* valid dashboard cache without creating one.
Enter(h) ==
    /\ threads.pc = "exit"
    /\ log = Idle
    /\ LET Served(ld) ==
             IF h = "dashboard.index" /\ ld.ret # NoPayload
             THEN [Outside EXCEPT !.handler = h]
             ELSE [Outside EXCEPT !.handler = h, !.pc = "created", !.created = TRUE]
       IN threads' = Served(load_dashboard_cache(Parser, F1))
    /\ UNCHANGED <<files, dirmtime, disk, MEMORY_CACHE, MEMORY_CACHE_ORDER, saved, log>>

\* The ingestion.  The worker tests parse_xml's result and releases the
\* parser in its finally clause; initialize_parser returns None without a
\* data file and raises when the ingestion fails, and the handlers leave
\* through their except clause or their 'if not parser' branch.
Ingestion ==
    /\ threads.pc = "created"
    /\ LET Done(r) ==
             /\ Commit(r.st)
             /\ threads' =
                  IF r.ret THEN [threads EXCEPT !.pc = "ingested",
                                                !.records = r.st.records,
                                                !.record_types = r.st.record_types]
                  ELSE IF threads.handler = "_parse_in_background"
                  THEN Exit(clean_up(threads))
                  ELSE Exit(threads)
       IN Done(IF threads.handler = "_parse_in_background"
               THEN parse_xml(Parser, F1, Plain)
               ELSE initialize_parser(Parser, F1, Plain))
    /\ UNCHANGED log

\* The aggregates are computed and the handler leaves: the worker through
\* its finally clause, dashboard.index and the analysis handlers with
\* clean_up on the paths that do not raise, get_chart without it.  The
\* worker and dashboard.index save the dashboard cache of what they built.
Aggregates ==
    /\ threads.pc = "ingested"
    /\ \E raised \in BOOLEAN :
         LET parser == [Parser EXCEPT !.records = threads.records,
                                      !.record_types = threads.record_types]
             Saved(sv) == Commit(sv.st)
             Left(released) ==
                 threads' = Exit(IF released THEN clean_up(threads) ELSE threads)
         IN /\ Left(CASE threads.handler = "_parse_in_background" -> TRUE
                      [] threads.handler = "dashboard.get_chart" -> FALSE
                      [] OTHER -> ~raised)
            /\ IF ~raised /\ threads.handler \in {"_parse_in_background", "dashboard.index"}
               THEN Saved(save_dashboard_cache(parser, F1, build_dashboard_payload(parser),
                                               IoFine))
               ELSE UNCHANGED <<files, dirmtime, disk, MEMORY_CACHE, MEMORY_CACHE_ORDER,
                                saved>>
    /\ UNCHANGED log

InitRelease ==
    /\ \E f1 \in {Gone, Fresh(0), Fresh(MaxRecs), Cut(MaxRecs)} :
         files = [p \in FileSet |-> IF p = F1 THEN f1 ELSE Gone]
    /\ dirmtime = [d \in TrackedDirs |-> 1]
    /\ disk = [p \in DiskPaths |-> Absent]
    /\ MEMORY_CACHE = EmptyFn
    /\ MEMORY_CACHE_ORDER = <<>>
    /\ threads = Outside
    /\ saved = [p \in CachePaths \cup DashboardPaths |-> NoPayload]
    /\ log = Idle

NextRelease ==
    \/ \E h \in Handlers : Enter(h)
    \/ Ingestion
    \/ Aggregates
    \/ ModifySource(F1, {Fresh(0), Fresh(MaxRecs), Cut(MaxRecs)})

SpecRelease == InitRelease /\ [][NextRelease]_vars

(***************************************************************************)
(* SpecUpload: one upload, step by step and thread by thread:              *)
(* upload.upload_file (the request that saved export.xml as F1), the       *)
(* worker thread it starts (_parse_in_background) and the requests that    *)
(* poll upload.status.  threads holds UPLOAD_LOCK (its holder or "free"),  *)
(* the entry of UPLOAD_STATUS for the upload's identifier, each thread's   *)
(* position and the locals of its frame.  The ingestion and the dashboard  *)
(* cache are the model's; the parse loop calls back at its report points,  *)
(* where the read position has advanced.                                   *)
(***************************************************************************)
UPLOADER == "upload_file"
WORKER == "_parse_in_background"
POLLER == "status"
UploadThreads == {UPLOADER, WORKER, POLLER}

StatusEntry(status, message, progress) ==
    [status |-> status, message |-> message, progress |-> progress]

\* UPLOAD_STATUS.get(upload_id) is None: what status() answers with 404.
NoEntry == StatusEntry("unknown", "No active upload.", 0)

\* A variant of "with UPLOAD_LOCK" that does not wait for the lock.
Acquirable_Unguarded(lock) == TRUE

\* with UPLOAD_LOCK: the block is entered once the lock is free.
Acquirable(lock) == lock = "free"

\* _set_upload_status(upload_id, status, message, progress) is called by
\* thread t, which goes on at 'back' when the call returns.
Set(fr, t, entry, back) ==
    [fr EXCEPT !.pc[t] = "with", !.arg[t] = entry, !.back[t] = back]

\* A variant whose except clause reports nothing.
except_Exception_Silent(fr) == [fr EXCEPT !.pc[WORKER] = "finally"]

\* except Exception as exc: _set_upload_status(upload_id, 'error', ..., 100)
except_Exception(fr) ==
    Set(fr, WORKER, StatusEntry("error", "Parsing failed: ", 100), "finally")

\* A variant that does not test cache_saved.
after_save_Untested(fr, cache_saved) ==
    Set(fr, WORKER, StatusEntry("done", "Parsing complete.", 100), "finally")

\* if not cache_saved: ... 'error' ... return; else 'done'
after_save(fr, cache_saved) ==
    IF ~cache_saved
    THEN Set(fr, WORKER, StatusEntry("error", "Failed to save dashboard cache.", 100),
             "finally")
    ELSE Set(fr, WORKER, StatusEntry("done", "Parsing complete.", 100), "finally")

UploadFrame ==
    [UPLOAD_LOCK |-> "free", UPLOAD_STATUS |-> NoEntry,
     pc |-> [t \in UploadThreads |->
               CASE t = UPLOADER -> "file.save" [] t = WORKER -> "unstarted"
                 [] OTHER -> "idle"],
     arg |-> [t \in UploadThreads |-> NoEntry],
     back |-> [t \in UploadThreads |-> "none"],
     parser |-> "none", records |-> <<>>, record_types |-> EmptyFn,
     pos |-> 0, total_size |-> 0, last_progress |-> -1,
     success |-> FALSE, cache_saved |-> FALSE, status_info |-> NoEntry]

Untouched == UNCHANGED <<files, dirmtime, disk, MEMORY_CACHE, MEMORY_CACHE_ORDER,
                         saved, log>>

\* _set_upload_status, lines 27-33: the lock is taken, the entry is stored
\* whole, the lock is released.
SetUploadStatus(t) ==
    /\ \/ /\ threads.pc[t] = "with"
          /\ Acquirable(threads.UPLOAD_LOCK)
          /\ threads' = [threads EXCEPT !.UPLOAD_LOCK = t, !.pc[t] = "store"]
       \/ /\ threads.pc[t] = "store"
          /\ threads' = [threads EXCEPT !.UPLOAD_STATUS = threads.arg[t],
                                        !.pc[t] = "release"]
       \/ /\ threads.pc[t] = "release"
          /\ threads' = [threads EXCEPT !.UPLOAD_LOCK = "free",
                                        !.pc[t] = threads.back[t]]
    /\ Untouched

\* upload_file, lines 111-118: 'queued' is written, then the thread starts.
UploadFile ==
    /\ \/ /\ threads.pc[UPLOADER] = "file.save"
          /\ threads' = Set(threads, UPLOADER,
                            StatusEntry("queued", "Queued for parsing...", 5),
                            "thread.start")
       \/ /\ threads.pc[UPLOADER] = "thread.start"
          /\ threads' = [threads EXCEPT !.pc[UPLOADER] = "render_template",
                                        !.pc[WORKER] = "started"]
    /\ Untouched

\* _parse_in_background up to the call of parse_xml: lines 39-42.
WorkerBegins ==
    /\ \/ /\ threads.pc[WORKER] = "started"
          /\ threads' = Set(threads, WORKER,
                            StatusEntry("processing", "Parsing export.xml...", 5),
                            "HealthDataParser")
       \/ /\ threads.pc[WORKER] = "HealthDataParser"
          /\ threads' = [threads EXCEPT !.parser = "created", !.pc[WORKER] = "parse_xml"]
    /\ Untouched

\* parse_xml with the worker's callback.  A cache hit calls back with 95;
\* otherwise the loop calls back at a report point when the percentage is
\* a new one, and the call returns when the document ends or breaks off.
WorkerParses ==
    LET r == parse_xml(Parser, F1, Plain)
        hit == r.loads # <<>> /\ r.loads[1].ret
        Returned(fr) ==
            [fr EXCEPT !.pc[WORKER] = "returned", !.success = r.ret,
                       !.records = r.st.records, !.record_types = r.st.record_types]
    IN \/ /\ threads.pc[WORKER] = "parse_xml"
          /\ threads' =
               IF hit
               THEN Set(threads, WORKER, StatusEntry("processing", "Loaded cached data.", 95),
                        "return")
               ELSE [threads EXCEPT !.pc[WORKER] = "loop",
                                    !.total_size = SizeOf(files[F1])]
          /\ Untouched
       \/ /\ threads.pc[WORKER] = "loop"
          /\ files[F1].n > 0
          /\ \E pos \in (threads.pos + 1)..SizeOf(files[F1]) :
               LET progress == Progress(pos, threads.total_size)
                   fr == [threads EXCEPT !.pos = pos]
               IN threads' =
                    IF progress # threads.last_progress
                    THEN Set([fr EXCEPT !.last_progress = progress], WORKER,
                             StatusEntry("processing", "Parsing export.xml... %", progress),
                             "loop")
                    ELSE fr
          /\ Untouched
       \/ /\ threads.pc[WORKER] \in {"loop", "return"}
          /\ threads' = Returned(threads)
          /\ Commit(r.st)
          /\ UNCHANGED log

\* Lines 43-64: the dashboard is built and its cache saved; building may
\* raise, saving reports its failure.
WorkerBuilds ==
    LET parser == [Parser EXCEPT !.records = threads.records,
                                 !.record_types = threads.record_types]
    IN \/ /\ threads.pc[WORKER] = "returned"
          /\ threads' =
               IF threads.success
               THEN Set(threads, WORKER,
                        StatusEntry("processing", "Building dashboard...", 97),
                        "build_dashboard_payload")
               ELSE Set(threads, WORKER,
                        StatusEntry("error", "Failed to parse export.xml.", 100), "finally")
          /\ Untouched
       \/ /\ threads.pc[WORKER] = "build_dashboard_payload"
          /\ \E raised \in BOOLEAN :
               threads' = IF raised THEN except_Exception(threads)
                          ELSE [threads EXCEPT !.pc[WORKER] = "save_dashboard_cache"]
          /\ Untouched
       \/ /\ threads.pc[WORKER] = "save_dashboard_cache"
          /\ \E io \in SpecIo :
               LET Saved(sv) ==
                     /\ Commit(sv.st)
                     /\ threads' = after_save([threads EXCEPT !.cache_saved = sv.ret], sv.ret)
               IN Saved(save_dashboard_cache(parser, F1, build_dashboard_payload(parser), io))
          /\ UNCHANGED log

\* finally: parser.clean_up()
WorkerReleases ==
    /\ threads.pc[WORKER] = "finally"
    /\ threads' = [threads EXCEPT !.parser = "released", !.pc[WORKER] = "exit"]
    /\ Untouched

\* status(), lines 68-80: the entry is read under the lock and answered
\* after the lock is released.
Status ==
    /\ \/ /\ threads.pc[POLLER] = "idle"
          /\ threads' = [threads EXCEPT !.pc[POLLER] = "with"]
       \/ /\ threads.pc[POLLER] = "with"
          /\ Acquirable(threads.UPLOAD_LOCK)
          /\ threads' = [threads EXCEPT !.UPLOAD_LOCK = POLLER, !.pc[POLLER] = "get"]
       \/ /\ threads.pc[POLLER] = "get"
          /\ threads' = [threads EXCEPT !.status_info = threads.UPLOAD_STATUS,
                                        !.pc[POLLER] = "release"]
       \/ /\ threads.pc[POLLER] = "release"
          /\ threads' = [threads EXCEPT !.UPLOAD_LOCK = "free", !.pc[POLLER] = "jsonify"]
       \/ /\ threads.pc[POLLER] = "jsonify"
          /\ threads' = [threads EXCEPT !.pc[POLLER] = "idle"]
    /\ Untouched

InitUpload ==
    /\ \E f1 \in {Fresh(0), Fresh(MaxRecs), Cut(MaxRecs)} :
         files = [p \in FileSet |-> IF p = F1 THEN f1 ELSE Gone]
    /\ dirmtime = [d \in TrackedDirs |-> 1]
    /\ disk = [p \in DiskPaths |-> Absent]
    /\ MEMORY_CACHE = EmptyFn
    /\ MEMORY_CACHE_ORDER = <<>>
    /\ threads = UploadFrame
    /\ saved = [p \in CachePaths \cup DashboardPaths |-> NoPayload]
    /\ log = Idle

WorkerRuns ==
    \/ SetUploadStatus(WORKER)
    \/ WorkerBegins
    \/ WorkerParses
    \/ WorkerBuilds
    \/ WorkerReleases

NextUpload ==
    \/ UploadFile
    \/ SetUploadStatus(UPLOADER)
    \/ WorkerRuns
    \/ Status

SpecUpload == InitUpload /\ [][NextUpload]_vars

\* The threads are scheduled: a thread that can take a step takes one, and
\* a thread that waits for the lock gets it when it is free again and again.
SpecUploadLive ==
    /\ SpecUpload
    /\ WF_vars(UploadFile \/ SetUploadStatus(UPLOADER))
    /\ SF_vars(WorkerRuns)
    /\ WF_vars(Status)

(***************************************************************************)
(* SpecSources: the cache paths and the stamps of two sources, computed by *)
(* the parser's functions and by the dashboard cache's, for every pair of  *)
(* sources (the three directories, the files in them and a path that does  *)
(* not exist) over a data directory that holds export.xml, 輸出.xml, both   *)
(* or neither.  threads keeps the arguments and the results.               *)
(***************************************************************************)
Missing == <<"u2", "nothing.xml">>
Sources == DirPaths \cup FileSet \cup {Missing}

Located(a, b) ==
    [pc |-> "located", a |-> a, b |-> b,
     cache_a |-> _cache_path_for_source(a),
     cache_b |-> _cache_path_for_source(b),
     dashboard_a |-> dashboard_cache_path_for_source(a),
     dashboard_b |-> dashboard_cache_path_for_source(b),
     stamp |-> _get_source_stamp(files, dirmtime, a),
     dashboard_stamp |-> dashboard_get_source_stamp(files, dirmtime, a)]

Locate ==
    /\ \E a \in Sources, b \in Sources : threads' = Located(a, b)
    /\ UNCHANGED <<files, dirmtime, disk, MEMORY_CACHE, MEMORY_CACHE_ORDER, saved, log>>

InitSources ==
    /\ \E dx \in {Gone, Fresh(MaxRecs)}, ds \in {Gone, Fresh(0)}, dj \in {Gone, Fresh(MaxRecs)} :
         files = [p \in FileSet |-> CASE p = DX -> dx [] p = DS -> ds [] p = DJ -> dj
                                      [] p \in {F1, F2} -> Fresh(MaxRecs)
                                      [] OTHER -> Gone]
    /\ \E mtime \in Mtimes : dirmtime = [d \in TrackedDirs |-> mtime]
    /\ disk = [p \in DiskPaths |-> Absent]
    /\ MEMORY_CACHE = EmptyFn
    /\ MEMORY_CACHE_ORDER = <<>>
    /\ threads = [pc |-> "start"]
    /\ saved = [p \in CachePaths \cup DashboardPaths |-> NoPayload]
    /\ log = Idle

SpecSources == InitSources /\ [][Locate]_vars

(***************************************************************************)
(* SpecMetrics: the derived-metric functions applied to records.  A field  *)
(* value is a piece of text (empty, a date, a numeral, something else) or  *)
(* a number as JSON gives it; NoField is a field the record does not have. *)
(* Days are numbered; Today is the day of pd.Timestamp.now().              *)
(***************************************************************************)
MaxDay == 2

date_fields == <<"startDate", "endDate", "date", "riqi", "Start", "End">>
value_fields == <<"value", "Value", "zhi", "shuzhi">>
step_types == <<"HKQuantityTypeIdentifierStepCount",
                "com.apple.health.type.quantity.steps", "StepCount">>

NoField == [kind |-> "absent", n |-> 0]
EmptyText == [kind |-> "text", n |-> 0]
OtherText == [kind |-> "words", n |-> 0]
DateText(day) == [kind |-> "date", n |-> day]
Numeral(n) == [kind |-> "numeral", n |-> n]
Number(n) == [kind |-> "number", n |-> n]

Today == Len(date_fields) + 1

\* "field in record and record[field]"
Has(record, field) ==
    /\ record[field] # NoField
    /\ record[field] # EmptyText
    /\ record[field] # Number(0)

\* pd.to_datetime raises for what is no date, and the except clause
\* returns pd.Timestamp.now().
_safe_date_conversion(date_str) ==
    IF date_str.kind = "date" THEN date_str.n ELSE Today

RECURSIVE ExtractDateFrom(_, _)
\* The loop of _extract_date from date_fields[i] on: the first field the
\* record has is converted and the loop is left.
ExtractDateFrom(record, i) ==
    IF i > Len(date_fields) THEN Today          \* date is None
    ELSE IF Has(record, date_fields[i])
    THEN _safe_date_conversion(record[date_fields[i]])
    ELSE ExtractDateFrom(record, i + 1)

_extract_date(record) == ExtractDateFrom(record, 1)

\* float(x) succeeds for a number and for a numeral.
IsNumeric(x) == x.kind \in {"numeral", "number"}
Float(x) == Number(x.n)
NoValue == [kind |-> "None", n |-> 0]

RECURSIVE ExtractValueFrom(_, _)
\* The loop of _extract_value: the first field the record has decides,
\* as a float or, when float() raises, as it is.
ExtractValueFrom(record, i) ==
    IF i > Len(value_fields) THEN NoValue
    ELSE IF Has(record, value_fields[i])
    THEN IF IsNumeric(record[value_fields[i]])
         THEN Float(record[value_fields[i]])
         ELSE record[value_fields[i]]
    ELSE ExtractValueFrom(record, i + 1)

_extract_value(record) == ExtractValueFrom(record, 1)

RECURSIVE Concat(_, _)
Concat(seqs, i) == IF i > Len(seqs) THEN <<>> ELSE seqs[i] \o Concat(seqs, i + 1)

RECURSIVE DataOf(_)
\* The list 'data' of get_step_count_data: a record whose value is None or
\* no number is left out.
DataOf(step_records) ==
    IF step_records = <<>> THEN <<>>
    ELSE LET Row(value) ==
                 IF value = NoValue \/ ~IsNumeric(value) THEN <<>>
                 ELSE <<[startDate |-> _extract_date(Head(step_records)),
                         value |-> Float(value).n]>>
         IN Row(_extract_value(Head(step_records))) \o DataOf(Tail(step_records))

get_step_count_data(records) ==
    DataOf(Concat([k \in 1..Len(step_types) |->
                      SelectSeq(records, LAMBDA r : r.type = step_types[k])], 1))

RECURSIVE SumOf(_, _)
SumOf(data, day) ==
    IF data = <<>> THEN 0
    ELSE (IF Head(data).startDate = day THEN Head(data).value ELSE 0)
         + SumOf(Tail(data), day)

RECURSIVE RowsFrom(_, _)
\* groupby(date).sum(): one row per date in the data, dates ascending.
RowsFrom(data, day) ==
    IF day > Today THEN <<>>
    ELSE (IF \E i \in 1..Len(data) : data[i].startDate = day
          THEN <<[riqi |-> day, bushu |-> SumOf(data, day)]>>
          ELSE <<>>) \o RowsFrom(data, day + 1)

get_daily_step_count(records) == RowsFrom(get_step_count_data(records), 1)

\* The records the functions are applied to.  In DatedRecords each alias
\* is absent, empty, no date, or the date of the day of its own number.
Fields == Range(date_fields) \cup Range(value_fields) \cup {"type"}

TextOf(pick, k) ==
    CASE pick = "absent" -> NoField
      [] pick = "empty" -> EmptyText
      [] pick = "words" -> OtherText
      [] OTHER -> DateText(k)

DatedRecords ==
    {[f \in Fields |->
         IF f = "type" THEN "StepCount"
         ELSE IF f \in Range(date_fields)
         THEN TextOf(pick[FirstIndex(date_fields, f)], FirstIndex(date_fields, f))
         ELSE NoField] :
       pick \in [1..Len(date_fields) -> {"absent", "empty", "words", "date"}]}

StepRecords ==
    {[f \in Fields |->
         CASE f = "type" -> type
           [] f = "startDate" -> start
           [] f = "endDate" -> end
           [] f = "value" -> value
           [] OTHER -> NoField] :
       type \in {"StepCount", "HKQuantityTypeIdentifierStepCount", "HeartRate"},
       start \in {NoField, OtherText} \cup {DateText(d) : d \in 1..MaxDay},
       end \in {NoField, DateText(MaxDay)},
       value \in {NoField, OtherText, Number(0), Numeral(50), Number(100)}}

ExtractDate ==
    /\ threads.pc = "start"
    /\ \E record \in DatedRecords :
         threads' = [pc |-> "_extract_date", records |-> <<record>>,
                     date |-> _extract_date(record), rows |-> <<>>]
    /\ UNCHANGED <<files, dirmtime, disk, MEMORY_CACHE, MEMORY_CACHE_ORDER, saved, log>>

DailySteps ==
    /\ threads.pc = "start"
    /\ \E first \in StepRecords, second \in StepRecords :
         \E records \in {<<first>>, <<first, second>>} :
           threads' = [pc |-> "get_daily_step_count", records |-> records,
                       date |-> Today, rows |-> get_daily_step_count(records)]
    /\ UNCHANGED <<files, dirmtime, disk, MEMORY_CACHE, MEMORY_CACHE_ORDER, saved, log>>

InitMetrics ==
    /\ files = [p \in FileSet |-> Gone]
    /\ dirmtime = [d \in TrackedDirs |-> 1]
    /\ disk = [p \in DiskPaths |-> Absent]
    /\ MEMORY_CACHE = EmptyFn
    /\ MEMORY_CACHE_ORDER = <<>>
    /\ threads = [pc |-> "start", records |-> <<>>, date |-> Today, rows |-> <<>>]
    /\ saved = [p \in CachePaths \cup DashboardPaths |-> NoPayload]
    /\ log = Idle

NextMetrics ==
    \/ ExtractDate
    \/ DailySteps

SpecMetrics == InitMetrics /\ [][NextMetrics]_vars

(***************************************************************************)
(* SpecDerived: get_sleep_duration_daily and get_stress_indicators as      *)
(* functions of the tables get_sleep_analysis_data and get_heart_rate_data *)
(* hand them.  A float is a number in units of 1/Scale, NaN or inf; a      *)
(* date is its day.  threads keeps the table given and the table returned. *)
(***************************************************************************)
MaxRows == 2
MaxSamples == 3
MaxHours == 2
Scale == 10

NaN == [kind |-> "nan", n |-> 0]
Inf == [kind |-> "inf", n |-> 0]
NoState == "<None>"

sleep_states == <<"asleep", "inBed", "rushui", "shuimian">>

\* str.lower() on the texts of the model.
Lower(text) ==
    CASE text = "inBed" -> "inbed"
      [] text = "InBed" -> "inbed"
      [] text = "ASLEEP" -> "asleep"
      [] OTHER -> text

\* sleep_data['value'].str.lower().isin([state.lower() for state in sleep_states])
\* str.lower() of None is NaN, which is in no list.
SleepMask(row) ==
    /\ row.value # NoState
    /\ \E i \in 1..Len(sleep_states) : Lower(row.value) = Lower(sleep_states[i])

\* A variant that keeps an empty selection.
OrAll_Filtered(filtered_sleep_data, sleep_data) == filtered_sleep_data

\* if filtered_sleep_data.empty: filtered_sleep_data = sleep_data
OrAll(filtered_sleep_data, sleep_data) ==
    IF filtered_sleep_data = <<>> THEN sleep_data ELSE filtered_sleep_data

RECURSIVE DurationSum(_, _)
\* groupby('日期')['duration'].sum(): NaN is skipped.
DurationSum(rows, day) ==
    IF rows = <<>> THEN 0
    ELSE (IF Head(rows).startDate = day /\ Head(rows).duration # NaN
          THEN Head(rows).duration.n ELSE 0) + DurationSum(Tail(rows), day)

RECURSIVE DailySleep(_, _)
\* One row per date of the rows, dates ascending.  Where no row has a
\* duration the column is computed again from endDate - startDate, which is
\* NaT for each of these rows, and the sums are 0 either way.
DailySleep(rows, day) ==
    IF day > MaxDay THEN <<>>
    ELSE (IF \E i \in 1..Len(rows) : rows[i].startDate = day
          THEN <<[riqi |-> day, hours |-> DurationSum(rows, day)]>>
          ELSE <<>>) \o DailySleep(rows, day + 1)

get_sleep_duration_daily(sleep_data) ==
    IF sleep_data = <<>> THEN <<>>
    ELSE DailySleep(OrAll(SelectSeq(sleep_data, SleepMask), sleep_data), 1)

\* The rows of get_sleep_analysis_data: a start date, and a duration or a
\* state or both.
SleepRows ==
    {row \in [startDate : 1..MaxDay,
              duration : {NaN} \cup {Number(h * Scale) : h \in 1..MaxHours},
              value : {NoState, "asleep", "InBed", "awake"}] :
        row.duration # NaN \/ row.value # NoState}

RECURSIVE SqrtIn(_, _, _)
SqrtIn(v, lo, hi) ==
    IF lo >= hi THEN lo
    ELSE LET mid == (lo + hi + 1) \div 2
         IN IF mid * mid <= v THEN SqrtIn(v, mid, hi) ELSE SqrtIn(v, lo, mid - 1)

RECURSIVE Total(_, _)
Total(xs, power) ==
    IF xs = <<>> THEN 0
    ELSE (IF power = 2 THEN Head(xs) * Head(xs) ELSE Head(xs)) + Total(Tail(xs), power)

RECURSIVE Greatest(_)
Greatest(xs) == IF Len(xs) = 1 THEN xs[1] ELSE Max(Head(xs), Greatest(Tail(xs)))

RECURSIVE Least(_)
Least(xs) == IF Len(xs) = 1 THEN xs[1] ELSE Min(Head(xs), Least(Tail(xs)))

\* The values of one day, after dropna.
ValuesOn(hr_data, day) ==
    SelectSeq(hr_data, LAMBDA row : row.startDate = day /\ row.value # NaN)

Finite(rows) == [i \in 1..Len(rows) |-> rows[i].value.n]

\* ('value', 'std'): the sample standard deviation, NaN for one sample and
\* where a value is inf.
Std(rows) ==
    IF Len(rows) < 2 \/ \E i \in 1..Len(rows) : rows[i].value = Inf THEN NaN
    ELSE LET n == Len(rows)
             xs == Finite(rows)
             d == n * Total(xs, 2) - Total(xs, 1) * Total(xs, 1)
         IN Number(SqrtIn(d \div (n * (n - 1)), 0, Greatest(xs) - Least(xs)))

\* lambda x: x.max() - x.min(): inf - inf is NaN.
ValueRange(rows) ==
    IF \A i \in 1..Len(rows) : rows[i].value = Inf THEN NaN
    ELSE IF \E i \in 1..Len(rows) : rows[i].value = Inf THEN Inf
    ELSE Number(Greatest(Finite(rows)) - Least(Finite(rows)))

\* A variant that leaves NaN in place.
fillna_Kept(x, value) == x

\* stress_data.fillna(0)
fillna(x, value) == IF x = NaN THEN Number(value) ELSE x

\* (std * 0.6 + range * 0.4) / 10.0
RawIndex(std, range) ==
    IF std = NaN \/ range = NaN THEN NaN
    ELSE IF std = Inf \/ range = Inf THEN Inf
    ELSE Number((std.n * 6 + range.n * 4) \div 100)

\* np.clip(x, 1, 10): NaN stays NaN.
clip(x, a_min, a_max) ==
    CASE x = NaN -> NaN
      [] x = Inf -> Number(a_max)
      [] OTHER -> Number(Max(a_min, Min(a_max, x.n)))

RECURSIVE StressRows(_, _)
\* groupby('日期').agg(std, max - min, mean), fillna(0), the index and its
\* clipping, one row per date that has a value.
StressRows(hr_data, day) ==
    IF day > MaxDay THEN <<>>
    ELSE LET rows == ValuesOn(hr_data, day)
             Row(std, range) ==
                 [riqi |-> day, samples |-> Len(rows), std |-> std, range |-> range,
                  raw |-> RawIndex(std, range),
                  index |-> clip(fillna(RawIndex(std, range), 0), Scale, 10 * Scale)]
         IN (IF rows = <<>> THEN <<>>
             ELSE <<Row(fillna(Std(rows), 0), fillna(ValueRange(rows), 0))>>)
            \o StressRows(hr_data, day + 1)

get_stress_indicators(hr_data) == StressRows(hr_data, 1)

\* The rows of get_heart_rate_data: float(value) succeeded, 'nan' and 'inf'
\* included.
HeartRates == {60, 62, 100, 250}
HeartRows ==
    [startDate : 1..MaxDay,
     value : {NaN, Inf} \cup {Number(v * Scale) : v \in HeartRates}]

TablesOf(rows, longest) == UNION {[1..n -> rows] : n \in 0..longest}

SleepDaily ==
    /\ threads.pc = "start"
    /\ \E sleep_data \in TablesOf(SleepRows, MaxRows) :
         threads' = [pc |-> "get_sleep_duration_daily", data |-> sleep_data,
                     table |-> get_sleep_duration_daily(sleep_data)]
    /\ UNCHANGED <<files, dirmtime, disk, MEMORY_CACHE, MEMORY_CACHE_ORDER, saved, log>>

StressIndicators ==
    /\ threads.pc = "start"
    /\ \E hr_data \in TablesOf(HeartRows, MaxSamples) :
         threads' = [pc |-> "get_stress_indicators", data |-> hr_data,
                     table |-> get_stress_indicators(hr_data)]
    /\ UNCHANGED <<files, dirmtime, disk, MEMORY_CACHE, MEMORY_CACHE_ORDER, saved, log>>

InitDerived ==
    /\ files = [p \in FileSet |-> Gone]
    /\ dirmtime = [d \in TrackedDirs |-> 1]
    /\ disk = [p \in DiskPaths |-> Absent]
    /\ MEMORY_CACHE = EmptyFn
    /\ MEMORY_CACHE_ORDER = <<>>
    /\ threads = [pc |-> "start", data |-> <<>>, table |-> <<>>]
    /\ saved = [p \in CachePaths \cup DashboardPaths |-> NoPayload]
    /\ log = Idle

NextDerived ==
    \/ SleepDaily
    \/ StressIndicators

SpecDerived == InitDerived /\ [][NextDerived]_vars

(***************************************************************************)
(* SpecGone: the upload F1 and its record cache, where the cache file may  *)
(* be removed from the upload directory while the server keeps running     *)
(* (the in-process entry stays), or be damaged.                            *)
(***************************************************************************)
RemoveSnapshot(cp) ==
    /\ log = Idle
    /\ exists(disk, cp)
    /\ disk' = [disk EXCEPT ![cp] = Absent]
    /\ saved' = [saved EXCEPT ![cp] = Spoiled(@)]
    /\ UNCHANGED <<threads, files, dirmtime, MEMORY_CACHE, MEMORY_CACHE_ORDER, log>>

NextGone ==
    \/ InitializeParser(F1, {IoFine}, {"no"})
    \/ ModifySource(F1, FileStates)
    \/ RemoveSnapshot(_cache_path_for_source(F1))
    \/ CorruptSnapshot(_cache_path_for_source(F1))
    \/ Restart
    \/ Respond

SpecGone == Init /\ [][NextGone]_vars

(***************************************************************************)
(* SpecFail: the handlers on the uploaded export file F1 when the I/O of a *)
(* save may fail at any of its calls, the removal of the temporary file    *)
(* may fail too, and the export file may disappear while a handler runs.   *)
(***************************************************************************)
FailIo == IoFor(dirname(F1))

NextFail ==
    \/ InitializeParser(F1, FailIo, {"no", "parse"})
    \/ DashboardIndex(F1, FailIo, {"no", "build"})
    \/ Restart
    \/ Respond

SpecFail == Init /\ [][NextFail]_vars

(***************************************************************************)
(* Calls that run step by step.  The threads are the background worker of  *)
(* an upload (upload._parse_in_background, started by upload_file) and a   *)
(* request handler; nothing in the code serialises them.                   *)
(***************************************************************************)
Threads == {"worker", "request"}

Thread(pc, source) ==
    [pc |-> pc, source |-> source, old_path |-> <<>>, at |-> "none", off |-> 0]

Goto(t, pc) == threads' = [threads EXCEPT ![t].pc = pc]

\* The payload a thread built from its source.
PayloadOf(source) ==
    LET Built(st) ==
            [kind |-> "payload", cache_version |-> CACHE_VERSION,
             source_stamp |-> _get_source_stamp(files, dirmtime, source),
             records |-> st.records, record_types |-> st.record_types]
    IN Built(CaptureFile(NewParser(EmptyFn, <<>>, disk, files, dirmtime, saved),
                         source, 1, files[source].n, "xml"))

(***************************************************************************)
(* _store_memory_cache(cache_path, payload), one statement per step, for   *)
(* the cache path of the thread's source.                                  *)
(***************************************************************************)
StoreSet(t) ==                  \* MEMORY_CACHE[cache_path] = payload
    /\ threads[t].pc = "set"
    /\ MEMORY_CACHE' = Put(MEMORY_CACHE, _cache_path_for_source(threads[t].source),
                           PayloadOf(threads[t].source))
    /\ Goto(t, "remove")
    /\ UNCHANGED <<files, dirmtime, disk, MEMORY_CACHE_ORDER, saved, log>>

StoreRemove(t) ==               \* if cache_path in MEMORY_CACHE_ORDER: remove it
    /\ threads[t].pc = "remove"
    /\ MEMORY_CACHE_ORDER' =
           IF InSeq(MEMORY_CACHE_ORDER, _cache_path_for_source(threads[t].source))
           THEN ListRemove(MEMORY_CACHE_ORDER, _cache_path_for_source(threads[t].source))
           ELSE MEMORY_CACHE_ORDER
    /\ Goto(t, "append")
    /\ UNCHANGED <<files, dirmtime, disk, MEMORY_CACHE, saved, log>>

StoreAppend(t) ==               \* MEMORY_CACHE_ORDER.append(cache_path)
    /\ threads[t].pc = "append"
    /\ MEMORY_CACHE_ORDER' = Append(MEMORY_CACHE_ORDER,
                                    _cache_path_for_source(threads[t].source))
    /\ Goto(t, "test")
    /\ UNCHANGED <<files, dirmtime, disk, MEMORY_CACHE, saved, log>>

StoreTest(t) ==                 \* while len(MEMORY_CACHE_ORDER) > MEMORY_CACHE_LIMIT
    /\ threads[t].pc = "test"
    /\ Goto(t, IF Len(MEMORY_CACHE_ORDER) > MEMORY_CACHE_LIMIT THEN "pop" ELSE "done")
    /\ UNCHANGED <<files, dirmtime, disk, MEMORY_CACHE, MEMORY_CACHE_ORDER, saved, log>>

StorePop(t) ==                  \* old_path = MEMORY_CACHE_ORDER.pop(0)
    /\ threads[t].pc = "pop"
    /\ IF MEMORY_CACHE_ORDER = <<>>
       THEN Goto(t, "raised") /\ UNCHANGED MEMORY_CACHE_ORDER       \* IndexError
       ELSE /\ threads' = [threads EXCEPT ![t].pc = "evict",
                                          ![t].old_path = Head(MEMORY_CACHE_ORDER)]
            /\ MEMORY_CACHE_ORDER' = Tail(MEMORY_CACHE_ORDER)
    /\ UNCHANGED <<files, dirmtime, disk, MEMORY_CACHE, saved, log>>

StoreEvict(t) ==                \* if old_path != cache_path: MEMORY_CACHE.pop(old_path, None)
    /\ threads[t].pc = "evict"
    /\ MEMORY_CACHE' =
           IF threads[t].old_path # _cache_path_for_source(threads[t].source)
           THEN Drop(MEMORY_CACHE, threads[t].old_path)
           ELSE MEMORY_CACHE
    /\ Goto(t, "test")
    /\ UNCHANGED <<files, dirmtime, disk, MEMORY_CACHE_ORDER, saved, log>>

(***************************************************************************)
(* SpecMem: the worker stores the payload of F1 while a request handler    *)
(* stores the payload of F2; the cache is empty or holds one earlier       *)
(* entry.                                                                  *)
(***************************************************************************)
SourceOf(t) == IF t = "worker" THEN F1 ELSE F2

InitMem ==
    /\ \E n \in 0..MaxRecs :
         files = [p \in FileSet |-> IF p = F1 THEN Fresh(n)
                                    ELSE IF p = F2 THEN Fresh(MaxRecs) ELSE Gone]
    /\ dirmtime = [d \in TrackedDirs |-> 1]
    /\ disk = [p \in DiskPaths |-> Absent]
    /\ saved = [p \in CachePaths \cup DashboardPaths |-> NoPayload]
    /\ log = Idle
    /\ threads = [t \in Threads |-> Thread("set", SourceOf(t))]
    /\ \E earlier \in {<<>>, <<F1>>, <<F2>>} :
         /\ MEMORY_CACHE_ORDER = [i \in 1..Len(earlier) |-> _cache_path_for_source(earlier[i])]
         /\ MEMORY_CACHE = [cp \in {_cache_path_for_source(earlier[i]) : i \in 1..Len(earlier)}
                              |-> PayloadOf(join(dirname(cp), "export.xml"))]

NextMem ==
    \E t \in Threads :
        \/ StoreSet(t)
        \/ StoreRemove(t)
        \/ StoreAppend(t)
        \/ StoreTest(t)
        \/ StorePop(t)
        \/ StoreEvict(t)

SpecMem == InitMem /\ [][NextMem]_vars

(***************************************************************************)
(* The try block of _save_cache (and of save_dashboard_cache), one system  *)
(* call per step.  A file is the sequence of the chunks written to it      *)
(* (chunk k of a payload is k, a hole is 0); threads[t].at is the name     *)
(* under which the file that t holds open is found now, threads[t].off is  *)
(* the number of chunks t has written.                                     *)
(***************************************************************************)
Bytes(data) == [kind |-> "bytes", data |-> data]
Whole == [k \in 1..NChunks |-> k]

WriteAt(data, k) ==
    [i \in 1..(IF Len(data) > k THEN Len(data) ELSE k) |->
        IF i = k THEN k ELSE IF i <= Len(data) THEN data[i] ELSE 0]

PathAt(t) ==
    IF threads[t].at = "tmp"
    THEN TmpPath(_cache_path_for_source(threads[t].source))
    ELSE _cache_path_for_source(threads[t].source)

SaveOpen(t) ==                  \* open(tmp_path, 'wb'): creates or truncates
    /\ threads[t].pc = "open"
    /\ disk' = [disk EXCEPT ![TmpPath(_cache_path_for_source(threads[t].source))] = Bytes(<<>>)]
    /\ threads' = [threads EXCEPT ![t].pc = "write", ![t].at = "tmp", ![t].off = 0]
    /\ UNCHANGED <<files, dirmtime, MEMORY_CACHE, MEMORY_CACHE_ORDER, saved, log>>

SaveWrite(t) ==                 \* pickle.dump: the next write to the open file
    /\ threads[t].pc = "write"
    /\ disk' = IF threads[t].at = "gone" THEN disk
               ELSE [disk EXCEPT ![PathAt(t)] = Bytes(WriteAt(@.data, threads[t].off + 1))]
    /\ threads' = [threads EXCEPT ![t].off = @ + 1,
                                  ![t].pc = IF threads[t].off + 1 = NChunks
                                            THEN "replace" ELSE "write"]
    /\ UNCHANGED <<files, dirmtime, MEMORY_CACHE, MEMORY_CACHE_ORDER, saved, log>>

\* The file is closed; os.replace(tmp_path, cache_path) renames whatever is
\* at tmp_path now, and raises if nothing is.
SaveReplace(t) ==
    /\ threads[t].pc = "replace"
    /\ IF ~exists(disk, TmpPath(_cache_path_for_source(threads[t].source)))
       THEN Goto(t, "cleanup") /\ UNCHANGED disk
       ELSE /\ disk' = [disk EXCEPT
                          ![_cache_path_for_source(threads[t].source)] =
                              disk[TmpPath(_cache_path_for_source(threads[t].source))],
                          ![TmpPath(_cache_path_for_source(threads[t].source))] = Absent]
            /\ threads' = [u \in Threads |->
                             IF u = t THEN [threads[u] EXCEPT !.pc = "store", !.at = "none"]
                             ELSE [threads[u] EXCEPT !.at = CASE @ = "tmp" -> "cache"
                                                              [] @ = "cache" -> "gone"
                                                              [] OTHER -> @]]
    /\ UNCHANGED <<files, dirmtime, MEMORY_CACHE, MEMORY_CACHE_ORDER, saved, log>>

SaveStore(t) ==                 \* _store_memory_cache(cache_path, payload)
    /\ threads[t].pc = "store"
    /\ LET Stored(sm) == MEMORY_CACHE' = sm.mem /\ MEMORY_CACHE_ORDER' = sm.order
       IN Stored(_store_memory_cache(MEMORY_CACHE, MEMORY_CACHE_ORDER,
                                     _cache_path_for_source(threads[t].source),
                                     PayloadOf(threads[t].source)))
    /\ Goto(t, "done")
    /\ UNCHANGED <<files, dirmtime, disk, saved, log>>

SaveCleanup(t) ==               \* except: if os.path.exists(tmp_path): os.remove(tmp_path)
    /\ threads[t].pc = "cleanup"
    /\ disk' = [disk EXCEPT ![TmpPath(_cache_path_for_source(threads[t].source))] = Absent]
    /\ threads' = [u \in Threads |->
                     IF u = t THEN [threads[u] EXCEPT !.pc = "done", !.at = "none"]
                     ELSE [threads[u] EXCEPT !.at = IF @ = "tmp" THEN "gone" ELSE @]]
    /\ UNCHANGED <<files, dirmtime, MEMORY_CACHE, MEMORY_CACHE_ORDER, saved, log>>

(***************************************************************************)
(* SpecSave: the worker and a request handler both missed the cache of F1  *)
(* and both save it, with an earlier snapshot in place or none.            *)
(***************************************************************************)
InitSave ==
    /\ \E n \in 0..MaxRecs :
         files = [p \in FileSet |-> IF p = F1 THEN Fresh(n) ELSE Gone]
    /\ dirmtime = [d \in TrackedDirs |-> 1]
    /\ \E earlier \in {Absent, Bytes(Whole)} :
         disk = [p \in DiskPaths |-> IF p = _cache_path_for_source(F1) THEN earlier
                                     ELSE Absent]
    /\ MEMORY_CACHE = EmptyFn
    /\ MEMORY_CACHE_ORDER = <<>>
    /\ threads = [t \in Threads |-> Thread("open", F1)]
    /\ saved = [p \in CachePaths \cup DashboardPaths |-> NoPayload]
    /\ log = Idle

NextSave ==
    \E t \in Threads :
        \/ SaveOpen(t)
        \/ SaveWrite(t)
        \/ SaveReplace(t)
        \/ SaveStore(t)
        \/ SaveCleanup(t)

SpecSave == InitSave /\ [][NextSave]_vars

(***************************************************************************)
(* What the claims speak about: the loads and saves of the last handler.   *)
(***************************************************************************)
Loads == {log.loads[i] : i \in 1..Len(log.loads)}
Saves == {log.saves[i] : i \in 1..Len(log.saves)}
IsRecordCache(e) == e.cache_path \in CachePaths
CurrentVersion(e) == IF IsRecordCache(e) THEN CACHE_VERSION ELSE DASHBOARD_CACHE_VERSION
NoDup(s) == \A i, j \in 1..Len(s) : s[i] = s[j] => i = j
IsSuffix(t, s) == Len(t) <= Len(s) /\ t = SubSeq(s, Len(s) - Len(t) + 1, Len(s))
XmlRecords(p, f) == [i \in 1..f.n |-> RecordOf(p, i)]
MemEntry(mem, cp) == IF cp \in DOMAIN mem THEN mem[cp] ELSE NoPayload

\* C1: whenever a cache load reports a hit (_load_cache from the in-process
\* tier or from the on-disk tier, or load_dashboard_cache), the payload it
\* used is the one that tier held, its cache_version is the current version
\* and its source_stamp is the stamp of the requested source computed during
\* that load; no hit is served from a payload that fails either comparison.
C1_HitOnlyFromValidPayload ==
    \A e \in Loads :
        e.ret => /\ e.used.kind = "payload"
                 /\ e.used.cache_version = CurrentVersion(e)
                 /\ e.used.source_stamp = e.stamp
                 /\ e.stamp = FileStamp(files, e.source)
                 /\ e.used = (IF e.tier = "memory"
                              THEN MemEntry(e.memBefore, e.cache_path)
                              ELSE e.diskBefore)

\* A hit of the record cache served from the on-disk tier.
C1_Witness ==
    \E e \in Loads : e.ret /\ e.tier = "disk" /\ IsRecordCache(e)

\* C3: after a save for S reached the disk, a load for S made while S's
\* modification time or size differ from those the save stamped reports a
\* miss: neither the in-process tier nor the on-disk tier serves it.
C3_ChangedSourceMisses ==
    \A e \in Loads :
        (e.expect # NoPayload /\ e.stamp # e.expect.payload.source_stamp)
            => ~e.ret /\ e.tier = "none" /\ e.used = NoPayload

\* A load of a touched source while both tiers still hold what was saved.
C3_Witness ==
    \E e \in Loads :
        /\ IsRecordCache(e)
        /\ e.expect # NoPayload /\ e.expect.intact
        /\ e.stamp # None
        /\ e.stamp # e.expect.payload.source_stamp
        /\ MemEntry(e.memBefore, e.cache_path) = e.expect.payload
        /\ e.diskBefore = e.expect.payload
        /\ ~e.ret

Junk(c) ==
    \/ c.kind \in {"garbage", "notdict"}
    \/ c.kind = "payload" /\ c.cache_version # CACHE_VERSION

ValidSnapshotOf(c, p) ==
    /\ c.kind = "payload"
    /\ c.cache_version = CACHE_VERSION
    /\ c.source_stamp = FileStamp(files, p)
    /\ c.records = XmlRecords(p, files[p])

Reingested(e) ==
    /\ ~e.ret
    /\ "xml" \in log.parsed
    /\ files[e.source].ok => log.records = XmlRecords(e.source, files[e.source])

ServedFromMemory(e) ==
    LET m == MemEntry(e.memBefore, e.cache_path)
    IN /\ m # NoPayload
       /\ m.cache_version = CACHE_VERSION
       /\ m.source_stamp = e.stamp
       /\ Len(m.records) > 0

StoreOk(cp, payload, mb, ma, ob, oa) ==
    /\ Cardinality(DOMAIN ma) <= MEMORY_CACHE_LIMIT
    /\ NoDup(oa)
    /\ Range(oa) = DOMAIN ma
    /\ cp \in DOMAIN ma /\ ma[cp] = payload
    /\ IsSuffix(oa, Append(SelectSeq(ob, LAMBDA x : x # cp), cp))
    /\ \A k \in DOMAIN ma \ {cp} : k \in DOMAIN mb /\ ma[k] = mb[k]

\* C9: after each store into the in-process cache (by a save or by a
\* promotion from the on-disk tier) the cache holds at most
\* MEMORY_CACHE_LIMIT entries, MEMORY_CACHE_ORDER lists exactly the keys of
\* MEMORY_CACHE, each once, the path just stored is retained with its
\* payload, and what was removed are the oldest paths in insertion order.
C9_StoreKeepsCacheBounded ==
    /\ \A e \in Loads :
          (IsRecordCache(e) /\ e.tier = "disk")
              => StoreOk(e.cache_path, e.used, e.memBefore, e.memAfter,
                         e.orderBefore, e.orderAfter)
    /\ \A e \in Saves :
          (IsRecordCache(e) /\ e.ok)
              => StoreOk(e.cache_path, e.payload, e.memBefore, e.memAfter,
                         e.orderBefore, e.orderAfter)
    /\ Cardinality(DOMAIN MEMORY_CACHE) <= MEMORY_CACHE_LIMIT
    /\ Range(MEMORY_CACHE_ORDER) = DOMAIN MEMORY_CACHE

\* A promotion from the on-disk tier evicted the entry of another path.
C9_Witness ==
    \E e \in Loads :
        /\ IsRecordCache(e) /\ e.tier = "disk"
        /\ e.orderBefore # <<>>
        /\ e.orderBefore[1] # e.cache_path
        /\ e.orderBefore[1] \notin DOMAIN e.memAfter
        /\ e.cache_path \in DOMAIN e.memAfter

(***************************************************************************)
(* Claims about directory sources, checked under SpecDir.                  *)
(***************************************************************************)
\* The source is as the save left it: expect is the last save that reached
\* the disk, its file is untouched, and the stamp of the source is the one
\* it had when that save returned.
SourceUnchangedSinceSave(e) ==
    /\ e.expect # NoPayload
    /\ e.expect.intact
    /\ e.stamp # None
    /\ e.stamp = e.expect.after

\* C2: a load for a source that is unchanged since a save of a Record Store
\* for it reached the disk reports a hit and yields records and a type
\* index equal to the saved ones.
C2_RoundTrip ==
    \A e \in Loads :
        (IsRecordCache(e) /\ SourceUnchangedSinceSave(e))
            => /\ e.ret
               /\ e.records = e.expect.payload.records
               /\ e.record_types = e.expect.payload.record_types

\* C4: for a directory without a canonical export file (stamped by its own
\* modification time), a load that follows a save of parse_directory or of
\* save_dashboard_cache, with no other change to the directory, is served
\* from the cache.
C4_DirectoryCacheIsServed ==
    \A e \in Loads :
        (/\ isdir(e.source)
         /\ e.stamp.type = "dir"
         /\ SourceUnchangedSinceSave(e))
            => e.ret

FilesOf(records) == {records[i].file : i \in 1..Len(records)}

\* C10: parse_directory reads JSON files only if XML ingestion captured no
\* record and CSV files only if XML and JSON captured none, and the Record
\* Store it leaves holds records of one format only.
C10_OneFormatInFixedOrder ==
    (log.op = "initialize_parser" /\ isdir(log.source))
        => /\ "json" \in log.parsed => DX \notin FilesOf(log.records)
           /\ "csv" \in log.parsed => FilesOf(log.records) \cap {DX, DJ} = {}
           /\ Cardinality(FilesOf(log.records)) <= 1

(***************************************************************************)
(* Claims about failing saves, checked under SpecFail.                     *)
(***************************************************************************)
\* C7: a save that fails (no stamp, or an I/O error while writing or
\* renaming the temporary file) does not raise, reports failure to its
\* caller, leaves no temporary file, leaves the snapshot at the cache path
\* as it was, and leaves the in-process cache as it was.
C7_FailedSaveIsCleanAndReported ==
    \A e \in Saves :
        ~e.ok => /\ ~e.raised
                 /\ e.ret = "False"
                 /\ e.tmpAfter = Absent
                 /\ e.diskAfter = e.diskBefore
                 /\ e.memAfter = e.memBefore
                 /\ e.orderAfter = e.orderBefore

(***************************************************************************)
(* Claims about threads, checked under SpecSave and SpecMem.               *)
(***************************************************************************)
\* C6: under every interleaving of the saves of two threads on one cache
\* path, the file at the cache path is at every instant absent or a
\* completely written payload.
C6_CachePathAbsentOrComplete ==
    \A cp \in CachePaths : disk[cp].kind = "bytes" => disk[cp].data = Whole

\* C8: when two threads have run _store_memory_cache for different cache
\* paths with their steps interleaved, the keys of MEMORY_CACHE are the
\* paths in MEMORY_CACHE_ORDER and there are at most MEMORY_CACHE_LIMIT.
C8_InterleavedStoresKeepCache ==
    (threads # NoThreads /\ \A t \in DOMAIN threads : threads[t].pc = "done")
        => /\ DOMAIN MEMORY_CACHE = Range(MEMORY_CACHE_ORDER)
           /\ Cardinality(DOMAIN MEMORY_CACHE) <= MEMORY_CACHE_LIMIT

(***************************************************************************)
(* Claims about what an ingestion call reports.                            *)
(***************************************************************************)
\* C11: an ingestion call (parse_xml, parse_directory) reports success if
\* and only if at least one record was captured into the Record Store; with
\* no record captured it reports failure.
C11_SuccessIffRecordCaptured ==
    (log.op = "initialize_parser" /\ log.loads # <<>>)
        => (log.ret <=> Len(log.records) > 0)

\* The files of one format in the directory, and what a file holds that
\* its reader would capture (a JSON entry without a 'type' key is not).
FilesOfFormat(fmt) == {p \in FileSet : IsUnder(p, DD) /\ Ext(p) = fmt /\ files[p].exists}
Yields(p) ==
    \E i \in 1..files[p].n : Ext(p) = "json" => TypeAt(i) # NOKEY

\* C12: when a directory holds several files of a format that is being
\* read and one of them is malformed, that file is skipped (nothing of it
\* is in the Record Store), the others are still read, and the call
\* succeeds if another file yields a record.
C12_BrokenFileIsSkipped ==
    (log.op = "initialize_parser" /\ isdir(log.source))
        => \A fmt \in log.parsed :
             \A bad \in FilesOfFormat(fmt) :
               \A good \in FilesOfFormat(fmt) \ {bad} :
                 (~files[bad].ok /\ files[good].ok /\ Yields(good))
                     => /\ log.ret
                        /\ bad \notin FilesOf(log.records)
TypedSubsequence(records, t) == SelectSeq(records, LAMBDA r : r.type = t)

IsRecordStore(records, record_types) ==
    /\ \A t \in DOMAIN record_types :
         /\ Truthy(t)
         /\ record_types[t] = TypedSubsequence(records, t)
    /\ \A i \in 1..Len(records) :
         Truthy(records[i].type) => records[i].type \in DOMAIN record_types

NonDecreasing(percentages) ==
    \A i \in 1..Len(percentages) :
        /\ percentages[i] \in 0..100
        /\ i > 1 => percentages[i - 1] <= percentages[i]

\* C15: the percentages the progress callback receives during one
\* ingestion are within 0..100 and never decrease, when the file is parsed
\* and when the cache serves it, and once parse_xml has returned the
\* callback is not invoked any more.
C15_ProgressNeverDecreases ==
    /\ [](NonDecreasing(threads.calls))
    /\ [][threads.pc \in {"returned", "building", "done"}
             => threads'.calls = threads.calls]_vars

\* A parse that reported twice, the second percentage above the first, has
\* returned and the worker has finished.
C15_Witness ==
    /\ threads.pc = "done"
    /\ Len(threads.calls) >= 2
    /\ threads.calls[1] < threads.calls[Len(threads.calls)]

\* C16: a caller that has created a parser has invoked clean_up on it when
\* it leaves, whatever the exit path (ingestion failed, no data, computing
\* the aggregates raised, or success), and after clean_up the parser's
\* list of temporary directories is empty.
C16_ParserReleasedOnEveryExit ==
    (threads.pc = "exit" /\ threads.created)
        => threads.cleaned /\ threads.temp_dirs = <<>>

\* The directory a source lives in, as far as its caches are concerned:
\* the source itself when it is a directory, else its parent directory.
Home(source_path) == IF isdir(source_path) THEN source_path ELSE dirname(source_path)

\* C17: the cache file of a source is placed inside the source when the
\* source is a directory and in the parent directory of the source when it
\* is a file, for the record cache and for the dashboard cache, and two
\* distinct sources that live in different directories never share a cache
\* file.
C17_CacheBesideItsSource ==
    threads.pc = "located"
        => /\ dirname(threads.cache_a) = Home(threads.a)
           /\ dirname(threads.dashboard_a) = Home(threads.a)
           /\ (threads.a # threads.b /\ Home(threads.a) # Home(threads.b))
                 => /\ threads.cache_a # threads.cache_b
                    /\ threads.dashboard_a # threads.dashboard_b
                    /\ threads.cache_a # threads.dashboard_b

\* A directory source and a file source of another directory, each with its
\* own cache file, the first inside the directory, the second beside the file.
C17_Witness ==
    /\ threads.pc = "located"
    /\ isdir(threads.a) /\ ~isdir(threads.b)
    /\ Home(threads.a) # Home(threads.b)
    /\ IsUnder(threads.cache_a, threads.a)
    /\ dirname(threads.cache_b) = dirname(threads.b)
    /\ threads.cache_a # threads.cache_b

\* The canonical export files of a directory in the order of the search.
CanonicalExports(d) == glob(files, d, "export.xml") \o glob(files, d, "shuchu.xml")

StampOfDirectory(d) ==
    IF CanonicalExports(d) # <<>>
    THEN [type |-> "file", path |-> CanonicalExports(d)[1],
          mtime |-> files[CanonicalExports(d)[1]].mtime,
          size |-> SizeOf(files[CanonicalExports(d)[1]])]
    ELSE [type |-> "dir", path |-> d, mtime |-> dirmtime[d]]

\* C18: the stamp of a directory source is the file stamp of the first
\* canonical export file (export.xml, 輸出.xml) found under it when there is
\* one, and the directory's own stamp (no size) otherwise, from the parser's
\* _get_source_stamp and from the dashboard cache's alike; a path that
\* cannot be accessed gives None.
C18_DirectoryStampedByItsExport ==
    threads.pc = "located"
        => \A stamp \in {threads.stamp, threads.dashboard_stamp} :
             /\ threads.a \in TrackedDirs => stamp = StampOfDirectory(threads.a)
             /\ threads.a = Missing => stamp = None

Parsable(record, field) == record[field].kind = "date"

RECURSIVE FirstParsable(_, _)
\* The day of the first alias, from date_fields[i] on, whose value is a
\* date; Today when there is none.
FirstParsable(record, i) ==
    IF i > Len(date_fields) THEN Today
    ELSE IF Parsable(record, date_fields[i]) THEN record[date_fields[i]].n
    ELSE FirstParsable(record, i + 1)

\* C19: _extract_date returns the parsed value of the first alias, in the
\* order startDate, endDate, date, 日期, Start, End, that is present and
\* parsable, and the current timestamp only when no alias is.
C19_FirstParsableAliasWins ==
    threads.pc = "_extract_date"
        => threads.date = FirstParsable(threads.records[1], 1)

IsStepRecord(record) ==
    /\ record.type \in Range(step_types)
    /\ \E i \in 1..Len(value_fields) : IsNumeric(record[value_fields[i]])

RECURSIVE StepsOn(_, _)
\* The sum of the numeric values of the step records that start on a day.
StepsOn(records, day) ==
    IF records = <<>> THEN 0
    ELSE (IF IsStepRecord(Head(records)) /\ FirstParsable(Head(records), 1) = day
          THEN Head(records).value.n ELSE 0)
         + StepsOn(Tail(records), day)

\* C20: the daily step table has one row per calendar date on which a step
\* record with a numeric value starts, of any of the step-type aliases, the
\* row's total is the sum of the values of the step records of that date,
\* and the rows are in ascending date order.
C20_DailyStepsSumPerDate ==
    threads.pc = "get_daily_step_count"
        => /\ \A day \in 1..Today :
                (\E i \in 1..Len(threads.records) :
                    /\ IsStepRecord(threads.records[i])
                    /\ FirstParsable(threads.records[i], 1) = day)
                <=> (\E k \in 1..Len(threads.rows) : threads.rows[k].riqi = day)
           /\ \A k \in 1..Len(threads.rows) :
                /\ threads.rows[k].bushu = StepsOn(threads.records, threads.rows[k].riqi)
                /\ k > 1 => threads.rows[k - 1].riqi < threads.rows[k].riqi

\* C23: a load that finds in MEMORY_CACHE an entry for the cache path whose
\* version and stamp match the stamp of the source is served that entry,
\* whatever the state of the cache file on disk (present, damaged, absent).
C23_MemoryHitIgnoresDisk ==
    \A e \in Loads :
        (/\ IsRecordCache(e)
         /\ FileStamp(files, e.source) # None
         /\ MemoryTierAccepts(MemEntry(e.memBefore, e.cache_path),
                              FileStamp(files, e.source)))
            => /\ e.tier = "memory"
               /\ e.used = MemEntry(e.memBefore, e.cache_path)
               /\ e.ret = (Len(e.used.records) > 0)

\* C30: for every source (a file, a directory with export.xml or 輸出.xml,
\* a directory without an export, a path that cannot be accessed) the
\* parser's _get_source_stamp and the dashboard cache's give the same stamp.
C30_StampsAgree ==
    threads.pc = "located" => threads.stamp = threads.dashboard_stamp

\* C24: while parse_xml parses, every percentage handed to the callback is
\* within 5..95 and differs from the one handed over before it, and the
\* callback is invoked only when the record count is a multiple of the
\* reporting interval and the total size is known.
C24_ParsingReportsWithinItsRange ==
    /\ [](threads.pc = "loop"
            => \A i \in 1..Len(threads.calls) :
                 /\ threads.calls[i] \in 5..95
                 /\ i > 1 => threads.calls[i - 1] # threads.calls[i])
    /\ [][(threads.pc = "loop" /\ threads'.calls # threads.calls)
             => /\ threads'.record_count % ReportEvery = 0
                /\ threads'.record_count > 0
                /\ threads.total_size # 0
                /\ threads.callback]_vars

\* A parse in progress that has reported the lowest and the highest
\* percentage of its range.
C24_Witness ==
    /\ threads.pc = "loop"
    /\ Len(threads.calls) >= 2
    /\ threads.calls[1] = 5
    /\ threads.calls[Len(threads.calls)] = 95

\* C28: the Record Store a cache hit for a file source S delivers, from
\* either tier, is the one a fresh parser gets by ingesting the unchanged S:
\* the records of S in document order and nothing captured from another
\* file or by an earlier parse call.
C28_HitEqualsFreshIngestion ==
    \A e \in Loads :
        (e.ret /\ IsRecordCache(e) /\ e.source \in FileSet)
            => e.records = XmlRecords(e.source, files[e.source])

\* C29: between requests, the payload held in the in-process cache for a
\* cache path equals the snapshot on disk the last save wrote there, as long
\* as nothing outside the parser has touched that file: no later operation
\* of a parser changes a payload that was stored.
C29_MemoryEqualsSnapshot ==
    \A cp \in DOMAIN MEMORY_CACHE :
        (saved[cp].kind = "saved" /\ saved[cp].intact)
            => MEMORY_CACHE[cp] = disk[cp]

Terminal(entry) == entry.status \in {"done", "error"}

\* C25: the entry of UPLOAD_STATUS is stored and read only by the thread
\* that holds UPLOAD_LOCK, so at most one thread is at the table at a time;
\* the table changes only to the whole entry its writer was called with, and
\* what status() answers with is an entry as it stood in the table.
C25_TableAccessUnderLock ==
    /\ [](\A t \in UploadThreads :
            threads.pc[t] \in {"store", "get", "release"} => threads.UPLOAD_LOCK = t)
    /\ [][/\ threads'.UPLOAD_STATUS # threads.UPLOAD_STATUS
               => \E t \in {UPLOADER, WORKER} :
                    /\ threads.UPLOAD_LOCK = t /\ threads.pc[t] = "store"
                    /\ threads'.UPLOAD_STATUS = threads.arg[t]
            /\ threads'.status_info # threads.status_info
               => /\ threads.UPLOAD_LOCK = POLLER
                  /\ threads'.status_info = threads.UPLOAD_STATUS]_vars

\* The poller holds the lock with the entry it has read while the worker
\* waits to store the next one.
C25_Witness ==
    /\ threads.pc[POLLER] = "release" /\ threads.UPLOAD_LOCK = POLLER
    /\ threads.status_info.status = "processing"
    /\ threads.pc[WORKER] = "with" /\ threads.arg[WORKER].progress = 97

StatusRank(entry) ==
    CASE entry.status = "unknown" -> 0
      [] entry.status = "queued" -> 1
      [] entry.status = "processing" -> 2
      [] OTHER -> 3

\* C26: the status entry of an upload goes queued, processing, then done or
\* error: 'queued' is there when the worker starts, a terminal entry is
\* never overwritten, the progress never decreases and is 100 exactly in
\* the terminal entries, and 'done' is written only when the ingestion
\* returned success and the dashboard cache was saved.
C26_StatusLifeCycle ==
    /\ [][threads'.UPLOAD_STATUS # threads.UPLOAD_STATUS
            => /\ ~Terminal(threads.UPLOAD_STATUS)
               /\ StatusRank(threads'.UPLOAD_STATUS) \in
                     {Max(2, StatusRank(threads.UPLOAD_STATUS)),
                      StatusRank(threads.UPLOAD_STATUS) + 1}
               /\ threads'.UPLOAD_STATUS.progress >= threads.UPLOAD_STATUS.progress]_vars
    /\ [](threads.pc[WORKER] = "started" => threads.UPLOAD_STATUS.status = "queued")
    /\ [](Terminal(threads.UPLOAD_STATUS) <=> threads.UPLOAD_STATUS.progress = 100)
    /\ [](threads.UPLOAD_STATUS.status = "done"
            => /\ threads.success /\ threads.cache_saved
               /\ disk[dashboard_cache_path_for_source(F1)].kind = "payload")

\* The worker has left with 'done', every report of the parse loop behind it.
C26_Witness ==
    /\ threads.pc[WORKER] = "exit"
    /\ threads.UPLOAD_STATUS = StatusEntry("done", "Parsing complete.", 100)
    /\ threads.last_progress = 95

\* C27: a worker that was started ends with a terminal status in the table
\* and its parser released, in that order, whatever the ingestion, the
\* building of the dashboard and the saving of its cache came to.
C27_WorkerEndsWithTerminalStatus ==
    /\ (threads.pc[WORKER] = "started")
          ~> (/\ threads.pc[WORKER] = "exit" /\ threads.parser = "released"
              /\ Terminal(threads.UPLOAD_STATUS))
    /\ [](threads.parser = "released" => Terminal(threads.UPLOAD_STATUS))

\* build_dashboard_payload raised and the worker has left.
C27_Witness ==
    /\ threads.pc[WORKER] = "exit" /\ threads.parser = "released"
    /\ threads.success /\ ~threads.cache_saved
    /\ threads.UPLOAD_STATUS = StatusEntry("error", "Parsing failed: ", 100)

\* C21: each day's stress index is in [1, 10]: a raw value above 10 is
\* reported as 10, one below 1 as 1, and a day with a single sample has its
\* undefined standard deviation replaced by zero, so that its index is 1.
C21_StressIndexClipped ==
    threads.pc = "get_stress_indicators" =>
        \A i \in 1..Len(threads.table) :
            LET row == threads.table[i]
            IN /\ row.index.kind = "number"
               /\ row.index.n \in Scale..(10 * Scale)
               /\ (row.raw = Inf \/ (row.raw.kind = "number" /\ row.raw.n > 10 * Scale))
                     => row.index.n = 10 * Scale
               /\ (row.raw.kind = "number" /\ row.raw.n < Scale) => row.index.n = Scale
               /\ row.samples = 1 => (row.std = Number(0) /\ row.index.n = Scale)

\* One day has a single sample, the other a raw value above 10.
C21_Witness ==
    /\ threads.pc = "get_stress_indicators" /\ Len(threads.table) = 2
    /\ threads.table[1].samples = 1 /\ threads.table[1].index = Number(Scale)
    /\ threads.table[2].samples = 2 /\ threads.table[2].raw.kind = "number"
    /\ threads.table[2].raw.n > 10 * Scale /\ threads.table[2].index = Number(10 * Scale)

\* A state of the asleep/in-bed vocabulary, whatever its case.
IsSleepState(value) ==
    value \in {"asleep", "ASLEEP", "Asleep", "inBed", "InBed", "inbed", "INBED",
               "rushui", "shuimian"}

RECURSIVE HoursOf(_, _)
\* The hours of the rows of one day.
HoursOf(rows, day) ==
    IF rows = <<>> THEN 0
    ELSE (IF Head(rows).startDate = day /\ Head(rows).duration # NaN
          THEN Head(rows).duration.n ELSE 0) + HoursOf(Tail(rows), day)

====
